---- MODULE Spec2Model ----
(***************************************************************************)
(* A model of ahgroupbot: the per-user SpamState and its combination, the  *)
(* Storage of users and chats, the Actions dispatcher with its semaphore   *)
(* and retry loop, the background spam check and the main event loop.      *)
(*                                                                         *)
(* The crate is the one lib.rs declares: action.rs, antispam/mod.rs,       *)
(* antispam/background.rs, antispam/spam_names.rs, storage.rs and          *)
(* bin/ahgroupbot.rs.  SpamState is the one of antispam/mod.rs (lib.rs     *)
(* re-exports antispam::SpamState); the three-variant SpamState that       *)
(* storage.rs and antispam.rs still carry is its superseded predecessor.   *)
(***************************************************************************)
EXTENDS Integers, FiniteSets, Sequences, Bags, TLC

VARIABLES
    \* operands and results of SpamState::add (SpecAddPair, SpecAddTriple)
    lhs, rhs, third, sums,
    \* Storage (SpecUsers, SpecChats): Data.users, Data.chats, the clock that
    \* now_ts_secs() reads, and the call that was made last with its result
    users, chats, now, last,
    \* Actions (SpecActions, SpecDelete, SpecMain): the free permits of
    \* outstanding_limit, the callers queued on it, each caller's position in
    \* spwan_delete_message / spawn_ban_user, the spawned tasks that have not
    \* ended, and the task that ended last
    outstanding_limit, waiters, callers, tasks, ended,
    \* the event loop of main (SpecMain): the updates that arrived and were
    \* not yet taken from the stream, the number that arrived, the loop's
    \* position and locals, how far each update got, and the order in which
    \* the updates were given to check_update
    pending, arrived, main, progress, order,
    \* the file of Storage (SpecSave): its bytes, the buffer save serializes
    \* into, the position of save or of the process, the snapshot the last
    \* completed save or open left, and the result of the last open
    file, buf, saver, committed, opened,
    \* the Storage the event loop and the background check share
    \* (SpecSharedSave): the holder of its lock and each caller's position
    store_lock, savers,
    \* BackgroundSpamCheck::launch (SpecLaunch): the time, the deadline of the
    \* interval's next tick, and the position and history of the loop
    clock, deadline, sweep,
    \* PolicyState (SpecPolicy): the last admitted (uid, noa) of each chat and
    \* the count of each traced (chat, user) in its db, the update handled last
    \* with its outcome, and the users the flood game has admitted so far
    user_noa, untrust, decision, graduated,
    \* check_message_text (SpecText): the text it was given last and what it
    \* returned
    msg_text, verdict,
    \* SpamNames (SpecNames): the Encounter of each full name, and the last
    \* operation on the table with the table before and after it
    spam_names, swept,
    \* percentile (SpecPercentile): the k and nums it was given last and what it
    \* returned
    pct_k, pct_nums, pct_ret,
    \* BackgroundSpamCheck::check_spam (SpecCheck): the users the platform holds
    \* as members of the chat, and the position and locals of check_spam
    present, check

addVars == <<lhs, rhs, third, sums>>
storeVars == <<users, chats, now, last>>
actionVars == <<outstanding_limit, waiters, callers, tasks, ended>>
mainVars == <<pending, arrived, main, progress, order>>
fileVars == <<file, buf, saver, committed, opened>>
lockVars == <<store_lock, savers>>
sweepVars == <<clock, deadline, sweep>>
policyVars == <<user_noa, untrust, decision, graduated>>
textVars == <<msg_text, verdict>>
namesVars == <<spam_names, swept>>
pctVars == <<pct_k, pct_nums, pct_ret>>
checkVars == <<present, check>>
vars == <<lhs, rhs, third, sums, users, chats, now, last,
          outstanding_limit, waiters, callers, tasks, ended,
          pending, arrived, main, progress, order,
          file, buf, saver, committed, opened,
          store_lock, savers,
          clock, deadline, sweep,
          user_noa, untrust, decision, graduated,
          msg_text, verdict,
          spam_names, swept,
          pct_k, pct_nums, pct_ret,
          present, check>>

----------------------------------------------------------------------------
(* Bounds of the model *)

\* timestamps (seconds) run over 0..MaxTs
MaxTs == 1
\* the ah counts (noa: u32) callers pass run over 0..MaxNoa; last_noa + 1
\* stays far below 2^32 there, so the u32 sum is the integer sum
MaxNoa == 5
\* Actions::new(bot, max_outstanding_requests, max_retry) is built with
\* these; bin/ahgroupbot.rs passes 30 and 5
MaxOutstanding == 2
MaxRetry == 2
\* the updates that arrive at the event loop
MaxEvents == 2
\* the calls of update_user and update_chat in a run of SpecSave
MaxUpdates == 3
\* the time of SpecLaunch runs over 0..MaxClock, in units of which
\* CHECK_INTERVAL (10 minutes in background.rs) is this many
MaxClock == 8
\* the updates PolicyState handles in a run of SpecPolicy, and the
\* count_to_ban it was made with
MaxPolicyEvents == 4
CountToBan == 1
CHECK_INTERVAL == 2

(* Program constants *)

\* score: u8
U8_MAX == 255
SPAM_THREHOLD == 100
\* action.rs, in seconds
RETRY_BASE_DELAY == 1
TEXT_SPAM_SCORE_MEDIUM_RISK == SPAM_THREHOLD \div 2
TEXT_SPAM_SCORE_UNKNOWN_RISK == SPAM_THREHOLD \div 6

UserIds == {1, 2}
ChatIds == {1, 2}
Timestamps == 0..MaxTs

----------------------------------------------------------------------------
(* SpamState: antispam/mod.rs *)

Authentic == [tag |-> "Authentic"]

MaybeSpam(score, create_ts_secs, update_ts_secs) ==
    [tag |-> "MaybeSpam", score |-> score,
     create_ts_secs |-> create_ts_secs, update_ts_secs |-> update_ts_secs]

\* cmp::min, cmp::max
cmp_min(a, b) == IF a <= b THEN a ELSE b
cmp_max(a, b) == IF a >= b THEN a ELSE b

\* a bug: the u8 sum wraps (what a plain + gives in a release build)
wrapping_add(a, b) == (a + b) % (U8_MAX + 1)

\* u8::saturating_add
saturating_add(a, b) == IF a + b > U8_MAX THEN U8_MAX ELSE a + b

is_authentic(s) == s.tag = "Authentic"

\* a bug: the threshold itself is not yet spam
is_spam_above(s) == s.tag = "MaybeSpam" /\ s.score > SPAM_THREHOLD

\* SpamState::is_spam
is_spam(s) == s.tag = "MaybeSpam" /\ s.score >= SPAM_THREHOLD

\* a bug: the timestamps of the left operand win
add_keep_left_ts(x, y) ==
    IF x.tag = "Authentic" \/ y.tag = "Authentic"
    THEN Authentic
    ELSE MaybeSpam(saturating_add(x.score, y.score),
                   x.create_ts_secs, x.update_ts_secs)

\* a bug: only an Authentic left operand absorbs
add_left_authentic(x, y) ==
    IF x.tag = "Authentic"
    THEN Authentic
    ELSE IF y.tag = "Authentic"
    THEN x
    ELSE MaybeSpam(saturating_add(x.score, y.score),
                   cmp_min(x.create_ts_secs, y.create_ts_secs),
                   cmp_max(x.update_ts_secs, y.update_ts_secs))

\* a bug: confirmed spam is matched before Authentic
add_spam_first(x, y) ==
    IF x.tag = "MaybeSpam" /\ x.score >= SPAM_THREHOLD
    THEN x
    ELSE IF y.tag = "MaybeSpam" /\ y.score >= SPAM_THREHOLD
    THEN y
    ELSE IF x.tag = "Authentic" \/ y.tag = "Authentic"
    THEN Authentic
    ELSE MaybeSpam(saturating_add(x.score, y.score),
                   cmp_min(x.create_ts_secs, y.create_ts_secs),
                   cmp_max(x.update_ts_secs, y.update_ts_secs))

\* impl Add for SpamState
add(x, y) ==
    IF x.tag = "Authentic" \/ y.tag = "Authentic"
    THEN Authentic
    ELSE MaybeSpam(saturating_add(x.score, y.score),
                   cmp_min(x.create_ts_secs, y.create_ts_secs),
                   cmp_max(x.update_ts_secs, y.update_ts_secs))

\* SpamState::with_score, at clock reading t
with_score(score, t) == MaybeSpam(score, t, t)

\* SpamState::new_spam
new_spam(t) == with_score(saturating_add(SPAM_THREHOLD, 1), t)

\* impl Default for SpamState
SpamState_default(t) == MaybeSpam(0, t, t)

----------------------------------------------------------------------------
(* The state after construction, part by part.  A specification that is    *)
(* about one part starts the other parts here and leaves them alone.        *)

NoSums == [tag |-> "none"]

\* no add has been applied
AddIdle ==
    /\ lhs = Authentic
    /\ rhs = Authentic
    /\ third = Authentic
    /\ sums = NoSums

Vacant == [tag |-> "Vacant"]
VacantChat == <<>>

\* Storage::open on an empty file: Data::default()
InitStore ==
    /\ users = [u \in UserIds |-> Vacant]
    /\ chats = [c \in ChatIds |-> VacantChat]
    /\ now = 0
    /\ last = [op |-> "none"]

Callers == {"main", "sweep"}
Idle == [pc |-> "idle", call |-> "none"]
NoTask == [kind |-> "none"]

\* Actions::new: Semaphore::new(max_outstanding_requests), nothing spawned
InitActions ==
    /\ outstanding_limit = MaxOutstanding
    /\ waiters = <<>>
    /\ callers = [c \in Callers |-> Idle]
    /\ tasks = EmptyBag
    /\ ended = NoTask

UpdateIds == 1..MaxEvents

\* main before its loop: nothing arrived, nothing taken
InitMain ==
    /\ pending = <<>>
    /\ arrived = 0
    /\ main = [pc |-> "next", update |-> 0, action |-> "none",
               retry_count |-> 0, result |-> "none"]
    /\ progress = [n \in UpdateIds |-> "none"]
    /\ order = <<>>

\* Storage::open on a path that did not exist: an empty file, an empty buf
InitFile ==
    /\ file = <<>>
    /\ buf = <<>>
    /\ saver = [pc |-> "idle", pos |-> 0, updates |-> 0, during |-> "none"]
    /\ committed = [doc |-> <<>>, cut |-> 0,
                    users |-> [u \in UserIds |-> Vacant],
                    chats |-> [c \in ChatIds |-> VacantChat]]
    /\ opened = [tag |-> "none"]

\* the shared Storage with its lock free and no call under way
InitLock ==
    /\ store_lock = "none"
    /\ savers = [c \in Callers |-> [pc |-> "idle", pos |-> 0, updates |-> 0]]

\* launch before its loop: tokio::time::interval(CHECK_INTERVAL), whose first
\* tick is due at once
InitSweep ==
    /\ clock = 0
    /\ deadline = 0
    /\ sweep = [pc |-> "tick", running |-> 0, started |-> 0, returned |-> 0,
                tick_for |-> 0, tick_at |-> 0, returned_at |-> 0,
                result |-> "none"]

\* the accounts that are bots
BotIds == {3}
\* the value of a (chat, user) the db holds no untrust-uid key for
NotTraced == -1

\* PolicyState::new on an empty db
InitPolicy ==
    /\ user_noa = [c \in ChatIds |-> <<>>]
    /\ untrust = [k \in ChatIds \X (UserIds \cup BotIds) |-> NotTraced]
    /\ decision = [n |-> 0]
    /\ graduated = {}

\* check_message_text has not been called
InitText ==
    /\ msg_text = <<>>
    /\ verdict = [tag |-> "none"]

FullNames == {"n1", "n2"}

\* SpamNames::default(): no name has an entry
InitNames ==
    /\ spam_names = [n \in FullNames |-> Vacant]
    /\ swept = [op |-> "none"]

\* percentile has not been called
InitPct ==
    /\ pct_k = 0
    /\ pct_nums = <<>>
    /\ pct_ret = [tag |-> "none", v |-> 0]

\* check_spam is not running
InitCheck ==
    /\ present = {}
    /\ check = [pc |-> "idle", safe_uid |-> 0, suspect_uids |-> <<>>,
                uid |-> 0, sweeps |-> 0, saves |-> 0, result |-> "none"]

otherThanAdd == <<storeVars, actionVars, mainVars, fileVars, lockVars, sweepVars, policyVars, textVars, namesVars, pctVars, checkVars>>
otherThanStore == <<addVars, actionVars, mainVars, fileVars, lockVars, sweepVars, policyVars, textVars, namesVars, pctVars, checkVars>>
otherThanActions == <<addVars, storeVars, mainVars, fileVars, lockVars, sweepVars, policyVars, textVars, namesVars, pctVars, checkVars>>
otherThanMain == <<addVars, storeVars, fileVars, lockVars, sweepVars, policyVars, textVars, namesVars, pctVars, checkVars>>
otherThanFile == <<addVars, actionVars, mainVars, lockVars, sweepVars, policyVars, textVars, namesVars, pctVars, checkVars>>
otherThanShared == <<addVars, actionVars, mainVars, sweepVars, policyVars, textVars, namesVars, pctVars, checkVars>>
otherThanSweep == <<addVars, storeVars, actionVars, mainVars, fileVars,
                    lockVars, policyVars, textVars, namesVars, pctVars, checkVars>>
otherThanPolicy == <<addVars, storeVars, actionVars, mainVars, fileVars,
                     lockVars, sweepVars, textVars, namesVars, pctVars, checkVars>>
otherThanText == <<addVars, storeVars, actionVars, mainVars, fileVars,
                   lockVars, sweepVars, policyVars, namesVars, pctVars, checkVars>>
otherThanNames == <<addVars, actionVars, mainVars, fileVars, lockVars,
                    sweepVars, policyVars, textVars, pctVars, checkVars>>
otherThanPct == <<addVars, storeVars, actionVars, mainVars, fileVars,
                  lockVars, sweepVars, policyVars, textVars, namesVars, checkVars>>
otherThanCheck == <<addVars, mainVars, fileVars, lockVars, sweepVars,
                    policyVars, textVars, pctVars>>

----------------------------------------------------------------------------
(* The operands SpamState::add is applied to.  A MaybeSpam is made by       *)
(* with_score (both timestamps the same) and changed only by add, so its    *)
(* create_ts_secs never exceeds its update_ts_secs.                         *)

AllScores == 0..U8_MAX

\* the threshold, the text scores, the u8 limit and their neighbours
SampleScores ==
    {0, 1, TEXT_SPAM_SCORE_UNKNOWN_RISK, TEXT_SPAM_SCORE_MEDIUM_RISK,
     SPAM_THREHOLD - 1, SPAM_THREHOLD, SPAM_THREHOLD + 1,
     U8_MAX \div 2, U8_MAX \div 2 + 1,
     U8_MAX - SPAM_THREHOLD - 1, U8_MAX - SPAM_THREHOLD, U8_MAX - 1, U8_MAX}

SpamStates(scores) ==
    {Authentic} \cup
    {MaybeSpam(s, c, u) : s \in scores,
                          c \in Timestamps, u \in Timestamps}

WellFormed(s) == s.tag = "MaybeSpam" => s.create_ts_secs <= s.update_ts_secs

InitAddPair ==
    /\ lhs \in SpamStates(AllScores) /\ WellFormed(lhs)
    /\ rhs \in SpamStates(AllScores) /\ WellFormed(rhs)
    /\ third = Authentic
    /\ sums = NoSums
    /\ InitStore
    /\ InitActions
    /\ InitMain /\ InitFile /\ InitLock /\ InitSweep /\ InitPolicy /\ InitText /\ InitNames /\ InitPct /\ InitCheck

InitAddTriple ==
    /\ lhs \in SpamStates(SampleScores) /\ WellFormed(lhs)
    /\ rhs \in SpamStates(SampleScores) /\ WellFormed(rhs)
    /\ third \in SpamStates(SampleScores) /\ WellFormed(third)
    /\ sums = NoSums
    /\ InitStore
    /\ InitActions
    /\ InitMain /\ InitFile /\ InitLock /\ InitSweep /\ InitPolicy /\ InitText /\ InitNames /\ InitPct /\ InitCheck

\* lhs + rhs and rhs + lhs
AddPair ==
    /\ sums.tag = "none"
    /\ sums' = [tag |-> "pair", xy |-> add(lhs, rhs), yx |-> add(rhs, lhs)]
    /\ UNCHANGED <<lhs, rhs, third>>
    /\ UNCHANGED otherThanAdd

\* (lhs + rhs) + third and lhs + (rhs + third)
AddTriple ==
    /\ sums.tag = "none"
    /\ sums' = [tag |-> "triple",
                xy_z |-> add(add(lhs, rhs), third),
                x_yz |-> add(lhs, add(rhs, third))]
    /\ UNCHANGED <<lhs, rhs, third>>
    /\ UNCHANGED otherThanAdd

NextAddPair == AddPair
NextAddTriple == AddTriple

SpecAddPair == InitAddPair /\ [][NextAddPair]_vars
SpecAddTriple == InitAddTriple /\ [][NextAddTriple]_vars

----------------------------------------------------------------------------
(* Storage: storage.rs.  Data.users maps a UserId to its SpamState and      *)
(* Data.chats maps a ChatId to the last admitted (UserId, noa); a key the   *)
(* map does not hold is Vacant.  Every method takes &mut self or &self of   *)
(* the one Storage, so a call is one step.                                  *)

\* the deltas callers merge: with_score of the no-risk and medium-risk text
\* scores and new_spam, built at the current clock reading, and Authentic
DeltaScores == {0, TEXT_SPAM_SCORE_MEDIUM_RISK}

Deltas(t) ==
    {Authentic, new_spam(t)} \cup {with_score(s, t) : s \in DeltaScores}

Noas == 0..MaxNoa

\* a bug: .or_default() in place of .or_insert(new_state)
entry_and_modify_or_default(entry, new_state) ==
    IF entry.tag = "Vacant"
    THEN SpamState_default(now)
    ELSE add(entry, new_state)

\* Storage::update_user: entry(..).and_modify(|e| *e += new_state)
\*                                 .or_insert(new_state)
entry_and_modify_or_insert(entry, new_state) ==
    IF entry.tag = "Vacant" THEN new_state ELSE add(entry, new_state)

update_user(user_id, new_state) ==
    /\ users' = [users EXCEPT
                   ![user_id] = entry_and_modify_or_insert(@, new_state)]
    /\ last' = [op |-> "update_user", user_id |-> user_id,
                new_state |-> new_state, ret |-> users'[user_id]]
    /\ UNCHANGED <<chats, now>>

\* Storage::get_user: users.get(user_id).cloned().unwrap_or_default()
get_user_ret(user_id) ==
    IF users[user_id].tag = "Vacant"
    THEN SpamState_default(now)
    ELSE users[user_id]

get_user(user_id) ==
    /\ last' = [op |-> "get_user", user_id |-> user_id,
                ret |-> get_user_ret(user_id)]
    /\ UNCHANGED <<users, chats, now>>

\* Storage::remove_user, as BackgroundSpamCheck::check_spam calls it
remove_user(user_id) ==
    /\ users' = [users EXCEPT ![user_id] = Vacant]
    /\ last' = [op |-> "remove_user", user_id |-> user_id]
    /\ UNCHANGED <<chats, now>>

\* Storage::get_chat
get_chat(chat_id) ==
    /\ last' = [op |-> "get_chat", chat_id |-> chat_id, ret |-> chats[chat_id]]
    /\ UNCHANGED <<users, chats, now>>

\* a bug: the user who sent the stored pair is admitted again
update_chat_same_user(entry, user_id, noa) ==
    IF entry = VacantChat
    THEN "Ok"
    ELSE IF noa > 3 /\ noa > entry[2] + 1
    THEN "No too many ah in a single message"
    ELSE "Ok"

\* a bug: the anti-burst test forgets the + 1
update_chat_no_plus_one(entry, user_id, noa) ==
    IF entry = VacantChat
    THEN "Ok"
    ELSE IF entry[1] = user_id
    THEN "No single-user flooding"
    ELSE IF noa > 3 /\ noa > entry[2]
    THEN "No too many ah in a single message"
    ELSE "Ok"

\* Storage::update_chat, its result: Ok or the error's message
update_chat_result(entry, user_id, noa) ==
    IF entry = VacantChat
    THEN "Ok"
    ELSE IF entry[1] = user_id
    THEN "No single-user flooding"
    ELSE IF noa > 3 /\ noa > entry[2] + 1
    THEN "No too many ah in a single message"
    ELSE "Ok"

\* a bug: the pair is stored before the tests, so a rejection keeps it
update_chat_insert_first(chat_id, user_id, noa) ==
    LET ret == update_chat_result(chats[chat_id], user_id, noa) IN
    /\ chats' = [chats EXCEPT ![chat_id] = <<user_id, noa>>]
    /\ last' = [op |-> "update_chat", chat_id |-> chat_id,
                user_id |-> user_id, noa |-> noa, ret |-> ret]
    /\ UNCHANGED <<users, now>>

\* Storage::update_chat
update_chat(chat_id, user_id, noa) ==
    LET ret == update_chat_result(chats[chat_id], user_id, noa) IN
    /\ chats' = IF ret = "Ok"
                THEN [chats EXCEPT ![chat_id] = <<user_id, noa>>]
                ELSE chats
    /\ last' = [op |-> "update_chat", chat_id |-> chat_id,
                user_id |-> user_id, noa |-> noa, ret |-> ret]
    /\ UNCHANGED <<users, now>>

\* the clock now_ts_secs() reads moves on
Tick ==
    /\ now < MaxTs
    /\ now' = now + 1
    /\ UNCHANGED <<users, chats, last>>

UpdateUser ==
    /\ \E user_id \in UserIds, new_state \in Deltas(now) :
          update_user(user_id, new_state)
    /\ UNCHANGED otherThanStore

GetUser ==
    /\ \E user_id \in UserIds : get_user(user_id)
    /\ UNCHANGED otherThanStore

RemoveUser ==
    /\ \E user_id \in UserIds : remove_user(user_id)
    /\ UNCHANGED otherThanStore

UpdateChat ==
    /\ \E chat_id \in ChatIds, user_id \in UserIds, noa \in Noas :
          update_chat(chat_id, user_id, noa)
    /\ UNCHANGED otherThanStore

GetChat ==
    /\ \E chat_id \in ChatIds : get_chat(chat_id)
    /\ UNCHANGED otherThanStore

ClockTick == Tick /\ UNCHANGED otherThanStore

InitUsers == InitStore /\ AddIdle /\ InitActions /\ InitMain /\ InitFile /\ InitLock /\ InitSweep /\ InitPolicy /\ InitText /\ InitNames /\ InitPct /\ InitCheck
InitChats == InitStore /\ AddIdle /\ InitActions /\ InitMain /\ InitFile /\ InitLock /\ InitSweep /\ InitPolicy /\ InitText /\ InitNames /\ InitPct /\ InitCheck

NextUsers == UpdateUser \/ GetUser \/ RemoveUser \/ ClockTick
NextChats == UpdateChat \/ GetChat

SpecUsers == InitUsers /\ [][NextUsers]_vars
SpecChats == InitChats /\ [][NextChats]_vars

----------------------------------------------------------------------------
(* Storage::open and Storage::save: storage.rs 74-101.  The file is a      *)
(* sequence of bytes; the model's byte is a token of the JSON document     *)
(* that sonic_rs writes for Data: a brace, a field name, a variant name or *)
(* a number.  save overwrites the file in place from offset 0 and cuts it  *)
(* to the length of the new document afterwards; the process may crash     *)
(* between any two bytes written.                                          *)

Tok(s) == [t |-> s, v |-> 0]
Num(n) == [t |-> "n", v |-> n]

\* #[derive(Serialize)] of SpamState: the variant, and the fields of
\* MaybeSpam
ser_state(s) ==
    IF is_authentic(s)
    THEN <<Tok("Authentic")>>
    ELSE <<Tok("MaybeSpam"), Num(s.score), Num(s.create_ts_secs),
           Num(s.update_ts_secs)>>

Least(S) == CHOOSE x \in S : \A y \in S : x <= y

\* the entries of Data.chats, each the key and the pair; the HashMap gives
\* them in some order, taken here as the order of the keys
RECURSIVE ser_chats(_, _)
ser_chats(cs, keys) ==
    IF keys = {} THEN <<>>
    ELSE LET k == Least(keys) IN
         (IF cs[k] = VacantChat THEN <<>>
          ELSE <<Num(k), Num(cs[k][1]), Num(cs[k][2])>>)
         \o ser_chats(cs, keys \ {k})

\* the entries of Data.users, each the key and the state
RECURSIVE ser_users(_, _)
ser_users(us, keys) ==
    IF keys = {} THEN <<>>
    ELSE LET k == Least(keys) IN
         (IF us[k].tag = "Vacant" THEN <<>> ELSE <<Num(k)>> \o ser_state(us[k]))
         \o ser_users(us, keys \ {k})

\* sonic_rs::to_writer(&mut self.buf, &self.data)
to_writer(cs, us) ==
    <<Tok("{"), Tok("chats")>> \o ser_chats(cs, ChatIds)
    \o <<Tok("users")>> \o ser_users(us, UserIds) \o <<Tok("}")>>

ParseErr == [tag |-> "Err"]

IsNum(f, i) == i <= Len(f) /\ f[i].t = "n"

\* the entries of "chats" from byte i on: the map read so far and the
\* place of the first byte that is no entry
RECURSIVE de_chats(_, _, _)
de_chats(f, i, cs) ==
    IF ~IsNum(f, i)
    THEN [tag |-> "Ok", next |-> i, chats |-> cs]
    ELSE IF IsNum(f, i + 1) /\ IsNum(f, i + 2) /\ f[i].v \in ChatIds
    THEN de_chats(f, i + 3, [cs EXCEPT ![f[i].v] = <<f[i + 1].v, f[i + 2].v>>])
    ELSE ParseErr

\* the entries of "users" from byte i on
RECURSIVE de_users(_, _, _)
de_users(f, i, us) ==
    IF ~IsNum(f, i)
    THEN [tag |-> "Ok", next |-> i, users |-> us]
    ELSE IF i + 1 <= Len(f) /\ f[i + 1].t = "Authentic" /\ f[i].v \in UserIds
    THEN de_users(f, i + 2, [us EXCEPT ![f[i].v] = Authentic])
    ELSE IF /\ i + 1 <= Len(f) /\ f[i + 1].t = "MaybeSpam"
            /\ IsNum(f, i + 2) /\ IsNum(f, i + 3) /\ IsNum(f, i + 4)
            /\ f[i].v \in UserIds
    THEN de_users(f, i + 5,
                  [us EXCEPT ![f[i].v] =
                      MaybeSpam(f[i + 2].v, f[i + 3].v, f[i + 4].v)])
    ELSE ParseErr

\* sonic_rs::from_slice(&buf): the whole slice is one document, bytes after
\* the closing brace are an error
from_slice(f) ==
    IF ~(Len(f) >= 2 /\ f[1].t = "{" /\ f[2].t = "chats")
    THEN ParseErr
    ELSE LET c == de_chats(f, 3, [k \in ChatIds |-> VacantChat]) IN
         IF c.tag = "Err" \/ c.next > Len(f) \/ f[c.next].t # "users"
         THEN ParseErr
         ELSE LET u == de_users(f, c.next + 1, [k \in UserIds |-> Vacant]) IN
              IF u.tag = "Err" \/ u.next # Len(f) \/ f[u.next].t # "}"
              THEN ParseErr
              ELSE [tag |-> "Ok", chats |-> c.chats, users |-> u.users]

\* Storage::open, its data: Default for an empty file, else the document
open_data(f) ==
    IF f = <<>>
    THEN [tag |-> "Ok", chats |-> [k \in ChatIds |-> VacantChat],
          users |-> [k \in UserIds |-> Vacant]]
    ELSE from_slice(f)

\* write of the byte b at offset pos (from 0) of the file f
write_at(f, pos, b) ==
    IF pos < Len(f)
    THEN [f EXCEPT ![pos + 1] = b]
    ELSE Append(f, b)

\* a bug: the file keeps its length
set_len_skipped(f, len) == f

\* self.file.set_len(len)
set_len(f, len) == IF len <= Len(f) THEN SubSeq(f, 1, len) ELSE f

\* the deltas and counts the owner of the Storage passes in SpecSave
SaveDeltas(t) == {Authentic, with_score(TEXT_SPAM_SCORE_MEDIUM_RISK, t)}
SaveNoas == {1}

\* update_user between two saves (save takes &mut self: no call overlaps it)
SaveUpdateUser ==
    /\ saver.pc = "idle"
    /\ saver.updates < MaxUpdates
    /\ \E user_id \in UserIds, new_state \in SaveDeltas(now) :
          update_user(user_id, new_state)
    /\ saver' = [saver EXCEPT !.updates = @ + 1]
    /\ UNCHANGED <<file, buf, committed, opened>>
    /\ UNCHANGED otherThanFile

\* update_chat between two saves
SaveUpdateChat ==
    /\ saver.pc = "idle"
    /\ saver.updates < MaxUpdates
    /\ \E chat_id \in ChatIds, user_id \in UserIds, noa \in SaveNoas :
          update_chat(chat_id, user_id, noa)
    /\ saver' = [saver EXCEPT !.updates = @ + 1]
    /\ UNCHANGED <<file, buf, committed, opened>>
    /\ UNCHANGED otherThanFile

\* save: buf.clear(); to_writer(&mut buf, &data); file.seek(Start(0))
SaveBegin ==
    /\ saver.pc = "idle"
    /\ buf' = to_writer(chats, users)
    /\ saver' = [saver EXCEPT !.pc = "write", !.pos = 0]
    /\ UNCHANGED <<file, committed, opened>>
    /\ UNCHANGED <<storeVars, otherThanFile>>

\* save: file.write_all(&buf), the next byte reaches the file
SaveWrite ==
    /\ saver.pc = "write"
    /\ saver.pos < Len(buf)
    /\ file' = write_at(file, saver.pos, buf[saver.pos + 1])
    /\ saver' = [saver EXCEPT !.pos = @ + 1]
    /\ UNCHANGED <<buf, committed, opened>>
    /\ UNCHANGED <<storeVars, otherThanFile>>

\* save: file.set_len(buf.len()) after the last byte, and Ok(())
SaveSetLen ==
    /\ saver.pc = "write"
    /\ saver.pos = Len(buf)
    /\ file' = set_len(file, Len(buf))
    /\ saver' = [saver EXCEPT !.pc = "idle", !.pos = 0]
    /\ committed' = [doc |-> file', cut |-> Len(file) - Len(buf),
                     users |-> users, chats |-> chats]
    /\ UNCHANGED <<buf, opened>>
    /\ UNCHANGED <<storeVars, otherThanFile>>

\* the process ends: it exits between two calls, or it crashes in save
Crash ==
    /\ saver.pc \in {"idle", "write"}
    /\ saver' = [saver EXCEPT !.pc = "down",
                   !.during = IF saver.pc = "write" THEN "save" ELSE "none"]
    /\ UNCHANGED <<file, buf, committed, opened>>
    /\ UNCHANGED <<storeVars, otherThanFile>>

\* the process starts again: Storage::open reads the file to its end
Reopen ==
    /\ saver.pc = "down"
    /\ LET d == open_data(file) IN
       IF d.tag = "Ok"
       THEN /\ opened' = [tag |-> "Ok", users |-> d.users, chats |-> d.chats,
                          clean |-> saver.during = "none",
                          expect |-> committed]
            /\ users' = d.users
            /\ chats' = d.chats
            /\ buf' = file
            /\ committed' = [doc |-> file, cut |-> 0,
                             users |-> d.users, chats |-> d.chats]
            /\ saver' = [saver EXCEPT !.pc = "idle", !.pos = 0,
                                      !.during = "none"]
       ELSE /\ opened' = [tag |-> "Err", clean |-> saver.during = "none",
                          expect |-> committed]
            /\ saver' = [saver EXCEPT !.pc = "failed"]
            /\ UNCHANGED <<users, chats, buf, committed>>
    /\ UNCHANGED <<file, now, last>>
    /\ UNCHANGED otherThanFile

InitSave == AddIdle /\ InitStore /\ InitActions /\ InitMain /\ InitFile /\ InitLock /\ InitSweep /\ InitPolicy /\ InitText /\ InitNames /\ InitPct /\ InitCheck

NextSave ==
    \/ SaveUpdateUser
    \/ SaveUpdateChat
    \/ SaveBegin
    \/ SaveWrite
    \/ SaveSetLen
    \/ Crash
    \/ Reopen

SpecSave == InitSave /\ [][NextSave]_vars

----------------------------------------------------------------------------
(* The Storage that main clones for PolicyState and BackgroundSpamCheck    *)
(* (bin/ahgroupbot.rs 41-47).  Both tasks call its methods through &self;  *)
(* the snapshot, the file and buf are behind one lock.  A short method     *)
(* takes the lock, works and gives it back in one step; save keeps it from *)
(* the serialization to set_len, the body being that of Storage::save.     *)

\* a bug: the lock is given whoever holds it
lock_granted_always(holder) == TRUE

\* the lock is given when nobody holds it
lock_granted(holder) == holder = "none"

\* what each task merges: check_update a text score or Authentic, check_spam
\* new_spam
SharedDeltas(c, t) == IF c = "main" THEN SaveDeltas(t) ELSE {new_spam(t)}

\* update_user(..).await by either task
SharedUpdateUser ==
    /\ \E c \in Callers :
          /\ savers[c].pc = "idle"
          /\ savers["main"].updates + savers["sweep"].updates < MaxUpdates
          /\ lock_granted(store_lock)
          /\ \E user_id \in UserIds, new_state \in SharedDeltas(c, now) :
                update_user(user_id, new_state)
          /\ savers' = [savers EXCEPT ![c].updates = @ + 1]
    /\ UNCHANGED <<store_lock, fileVars>>
    /\ UNCHANGED otherThanShared

\* save().await is called: policy.save() in main, storage.save() at the end
\* of check_spam
SharedSaveCall ==
    /\ \E c \in Callers :
          /\ savers[c].pc = "idle"
          /\ savers' = [savers EXCEPT ![c].pc = "lock"]
    /\ UNCHANGED <<store_lock, fileVars, storeVars>>
    /\ UNCHANGED otherThanShared

\* save has the lock: buf.clear(); to_writer; seek(Start(0))
SharedSaveBegin ==
    /\ \E c \in Callers :
          /\ savers[c].pc = "lock"
          /\ lock_granted(store_lock)
          /\ store_lock' = c
          /\ buf' = to_writer(chats, users)
          /\ savers' = [savers EXCEPT ![c].pc = "write", ![c].pos = 0]
    /\ UNCHANGED <<file, saver, committed, opened, storeVars>>
    /\ UNCHANGED otherThanShared

\* save: write_all, the next byte
SharedSaveWrite ==
    /\ \E c \in Callers :
          /\ savers[c].pc = "write"
          /\ savers[c].pos < Len(buf)
          /\ file' = write_at(file, savers[c].pos, buf[savers[c].pos + 1])
          /\ savers' = [savers EXCEPT ![c].pos = @ + 1]
    /\ UNCHANGED <<store_lock, buf, saver, committed, opened, storeVars>>
    /\ UNCHANGED otherThanShared

\* save: set_len, Ok(()), and the lock is free again
SharedSaveSetLen ==
    /\ \E c \in Callers :
          /\ savers[c].pc = "write"
          /\ savers[c].pos >= Len(buf)
          /\ file' = set_len(file, Len(buf))
          /\ committed' = [doc |-> file', cut |-> Len(file) - Len(buf),
                           users |-> users, chats |-> chats]
          /\ store_lock' = "none"
          /\ savers' = [savers EXCEPT ![c].pc = "idle", ![c].pos = 0]
    /\ UNCHANGED <<buf, saver, opened, storeVars>>
    /\ UNCHANGED otherThanShared

InitSharedSave ==
    AddIdle /\ InitStore /\ InitActions /\ InitMain /\ InitFile /\ InitLock /\ InitSweep /\ InitPolicy /\ InitText /\ InitNames /\ InitPct /\ InitCheck

NextSharedSave ==
    \/ SharedUpdateUser
    \/ SharedSaveCall
    \/ SharedSaveBegin
    \/ SharedSaveWrite
    \/ SharedSaveSetLen

SpecSharedSave == InitSharedSave /\ [][NextSharedSave]_vars

----------------------------------------------------------------------------
(* BackgroundSpamCheck::launch: antispam/background.rs 34-43.  One task    *)
(* loops over interval.tick().await and self.check_spam().await.  The      *)
(* interval is tokio's with MissedTickBehavior::Skip: tick() returns when  *)
(* its deadline is reached, at once when the deadline is past, and sets    *)
(* the next deadline; after a late tick that is the next multiple of the   *)
(* period from the start that lies after now.                              *)

\* a bug: the missed-tick behaviour is left at Burst, each deadline one
\* period after the last
next_timeout_burst(timeout, t, period) == timeout + period

\* Interval::poll_tick with MissedTickBehavior::Skip: the deadline after the
\* tick of deadline timeout that returned at t
next_timeout(timeout, t, period) ==
    IF t > timeout
    THEN t + period - ((t - timeout) % period)
    ELSE timeout + period

\* time passes, whatever the loop does
TimePasses ==
    /\ clock < MaxClock
    /\ clock' = clock + 1
    /\ UNCHANGED <<deadline, sweep>>
    /\ UNCHANGED otherThanSweep

\* interval.tick().await returns and self.check_spam() is called
IntervalTick ==
    /\ sweep.pc = "tick"
    /\ clock >= deadline
    /\ deadline' = next_timeout(deadline, clock, CHECK_INTERVAL)
    /\ sweep' = [sweep EXCEPT !.pc = "check_spam", !.running = @ + 1,
                              !.started = @ + 1, !.tick_for = deadline,
                              !.tick_at = clock]
    /\ UNCHANGED clock
    /\ UNCHANGED otherThanSweep

\* check_spam returns Ok(()) or Err (which is logged) and the loop goes on
CheckSpamReturns ==
    /\ sweep.running > 0
    /\ \E result \in {"Ok", "Err"} :
          sweep' = [sweep EXCEPT !.pc = "tick", !.running = @ - 1,
                                 !.returned = @ + 1, !.returned_at = clock,
                                 !.result = result]
    /\ UNCHANGED <<clock, deadline>>
    /\ UNCHANGED otherThanSweep

InitLaunch ==
    /\ AddIdle /\ InitStore /\ InitActions /\ InitMain /\ InitFile
    /\ InitLock /\ InitSweep /\ InitPolicy /\ InitText /\ InitNames /\ InitPct
    /\ InitCheck

NextLaunch ==
    \/ TimePasses
    \/ IntervalTick
    \/ CheckSpamReturns

SpecLaunch == InitLaunch /\ [][NextLaunch]_vars

----------------------------------------------------------------------------
(* PolicyState: policy.rs.  Its db holds, per chat, the (uid, noa) of the  *)
(* message admitted last, and per (chat, user) the count of suspicious     *)
(* messages of a user that joined and is traced since.  An update is       *)
(*   kind     "Message", "EditedMessage", "Error" or "Other"               *)
(*   chat_id  the chat of update.chat() / update.chat_id(), 0 for None     *)
(*   id       update.id, also taken as the id of the message               *)
(*   msg      for the two message kinds: its kind, sender, form (plain,    *)
(*            decorated by bold .. spoiler entities only, a reply, or with *)
(*            a clickable entity), content and new or left members         *)

NoChat == 0
PublicChats == {1}

NoSender == [tag |-> "None", id |-> 0, is_bot |-> FALSE]
Sender(id) == [tag |-> "Some", id |-> id, is_bot |-> id \in BotIds]
Senders == {NoSender} \cup {Sender(id) : id \in UserIds \cup BotIds}

\* text: "ah" is n times the one character, "mixed" holds it among others,
\* "other" holds it not; sticker: one of stickers.txt or not
Content(text, n, sticker) == [text |-> text, n |-> n, sticker |-> sticker]
Contents ==
    {Content("ah", n, "none") : n \in {1, MaxNoa}}
    \cup {Content("mixed", 1, "none"), Content("other", 0, "none"),
          Content("none", 0, "allowed"), Content("none", 0, "unknown"),
          Content("none", 0, "none")}

Forms == {"plain", "decorated", "reply", "clickable"}

NoMsg ==
    [kind |-> "none", from |-> NoSender, form |-> "plain",
     content |-> Content("none", 0, "none"), members |-> {}]

Common(from, form, content) ==
    [kind |-> "Common", from |-> from, form |-> form, content |-> content,
     members |-> {}]

\* common messages: every sender and content in a plain or decorated
\* message, and the forms and contents fewer where the code reads less
PlainMsgs ==
    {Common(from, form, content) :
        from \in Senders, form \in {"plain", "decorated"},
        content \in Contents}
FormedMsgs ==
    {Common(from, form, content) :
        from \in Senders, form \in {"reply", "clickable"},
        content \in {Content("ah", 1, "none"), Content("other", 0, "none")}}
BriefMsgs ==
    {Common(from, "plain", content) :
        from \in Senders,
        content \in {Content("ah", 1, "none"), Content("other", 0, "none"),
                     Content("none", 0, "allowed")}}

\* NewChatTitle stands for the four kinds is_message_allowed lets pass,
\* GroupChatCreated for the kinds it names not
ServiceMsgs ==
    {[NoMsg EXCEPT !.kind = k] : k \in {"NewChatTitle", "GroupChatCreated"}}

\* service messages of joining and leaving; a private chat has none
MemberMsgs ==
    {[NoMsg EXCEPT !.kind = "NewChatMembers", !.members = ms] :
        ms \in (SUBSET UserIds) \ {{}}}
    \cup {[NoMsg EXCEPT !.kind = "LeftChatMember", !.members = {u}] :
            u \in UserIds}

Update(kind, chat_id, id, msg) ==
    [kind |-> kind, chat_id |-> chat_id, id |-> id, msg |-> msg]

\* the updates that may come as the id-th
Updates(id) ==
    {Update("Error", c, id, NoMsg) : c \in ChatIds \cup {NoChat}}
    \cup {Update("Other", c, id, NoMsg) : c \in ChatIds \cup {NoChat}}
    \cup {Update("Message", c, id, m) :
            c \in PublicChats,
            m \in PlainMsgs \cup FormedMsgs \cup ServiceMsgs \cup MemberMsgs}
    \cup {Update("Message", c, id, m) :
            c \in ChatIds \ PublicChats, m \in BriefMsgs \cup ServiceMsgs}
    \cup {Update("EditedMessage", c, id, m) : c \in ChatIds, m \in BriefMsgs}

get_user_noa(db_noa, cid) == db_noa[cid]
put_user_noa(db_noa, cid, uid, noa) == [db_noa EXCEPT ![cid] = <<uid, noa>>]
new_user_join(db_untrust, cid, uid) == [db_untrust EXCEPT ![<<cid, uid>>] = 0]
stop_trace_user(db_untrust, cid, uid) ==
    [db_untrust EXCEPT ![<<cid, uid>>] = NotTraced]

\* should_ban_user: update_and_fetch adds 1 to the count of a traced user;
\* the result is count >= count_to_ban, false for a user not traced
should_ban_user(db_untrust, cid, uid) ==
    IF db_untrust[<<cid, uid>>] = NotTraced
    THEN [ret |-> FALSE, untrust |-> db_untrust]
    ELSE [ret |-> db_untrust[<<cid, uid>>] + 1 >= CountToBan,
          untrust |-> [db_untrust EXCEPT ![<<cid, uid>>] = @ + 1]]

\* the noa of a message: text.len() / 3 of a text of the one character (3
\* bytes each), 1 for an allowed sticker, -1 for what is_message_allowed
\* returns false for
noa_of(content) ==
    IF content.text = "none"
    THEN IF content.sticker = "allowed" THEN 1 ELSE -1
    ELSE IF content.text # "ah" THEN -1
    ELSE (3 * content.n) \div 3

\* the message passes every test that is_message_allowed makes before the
\* flood rule (lines 37-83)
is_filler(m) ==
    /\ m.kind = "Common"
    /\ m.from.tag = "Some" /\ ~m.from.is_bot
    /\ m.form \in {"plain", "decorated"}
    /\ noa_of(m.content) >= 0

\* the flood rule of is_message_allowed (lines 85-92)
flood_rejects(entry, uid, noa) ==
    /\ entry # <<>>
    /\ \/ entry[1] = uid
       \/ noa > 3 /\ noa > entry[2] + 1

\* is_message_allowed: its result and the db it leaves
is_message_allowed(db_noa, db_untrust, chat_id, m) ==
    LET same(ret) == [ret |-> ret, user_noa |-> db_noa, untrust |-> db_untrust,
                      admitted |-> FALSE]
        uid == m.from.id
        noa == noa_of(m.content)
    IN  IF m.kind = "NewChatTitle" THEN same(TRUE)
        ELSE IF m.kind # "Common" THEN same(FALSE)
        ELSE IF m.from.tag = "None" \/ m.from.is_bot THEN same(FALSE)
        ELSE IF m.form = "reply" THEN same(FALSE)
        ELSE IF m.form = "clickable" THEN same(FALSE)
        ELSE IF noa < 0 THEN same(FALSE)
        ELSE IF flood_rejects(get_user_noa(db_noa, chat_id), uid, noa)
        THEN same(FALSE)
        ELSE [ret |-> TRUE,
              user_noa |-> put_user_noa(db_noa, chat_id, uid, noa),
              untrust |-> stop_trace_user(db_untrust, chat_id, uid),
              admitted |-> TRUE]

\* is_message_likely_spam: the sender of a common message with a sticker
\* not allowed, a text without the character, or neither text nor sticker
is_message_likely_spam(m) ==
    /\ m.kind = "Common"
    /\ m.from.tag = "Some"
    /\ IF m.content.sticker # "none" THEN m.content.sticker # "allowed"
       ELSE IF m.content.text # "none" THEN m.content.text = "other"
       ELSE TRUE

\* a bug: an edited message is tested like a new one
get_message_to_delete_edit_tested(db_noa, db_untrust, update) ==
    LET same(del) == [delete |-> del, user_noa |-> db_noa,
                      untrust |-> db_untrust, admitted |-> FALSE]
        a == is_message_allowed(db_noa, db_untrust, update.chat_id,
                                update.msg)
    IN  IF update.kind = "Error"
        THEN same(IF update.chat_id = NoChat THEN <<>>
                  ELSE <<update.chat_id, update.id>>)
        ELSE IF update.chat_id = NoChat THEN same(<<>>)
        ELSE IF update.chat_id \notin PublicChats THEN same(<<>>)
        ELSE IF update.kind \in {"Message", "EditedMessage"}
        THEN [delete |-> IF a.ret THEN <<>>
                         ELSE <<update.chat_id, update.id>>,
              user_noa |-> a.user_noa, untrust |-> a.untrust,
              admitted |-> a.admitted]
        ELSE same(<<>>)

\* get_message_to_delete: the (chat, message) to delete or <<>> for None,
\* and the db it leaves
get_message_to_delete(db_noa, db_untrust, update) ==
    LET same(del) == [delete |-> del, user_noa |-> db_noa,
                      untrust |-> db_untrust, admitted |-> FALSE]
        a == is_message_allowed(db_noa, db_untrust, update.chat_id,
                                update.msg)
    IN  IF update.kind = "Error"
        THEN same(IF update.chat_id = NoChat THEN <<>>
                  ELSE <<update.chat_id, update.id>>)
        ELSE IF update.chat_id = NoChat THEN same(<<>>)
        ELSE IF update.chat_id \notin PublicChats THEN same(<<>>)
        ELSE IF update.kind = "Message"
        THEN [delete |-> IF a.ret THEN <<>>
                         ELSE <<update.chat_id, update.id>>,
              user_noa |-> a.user_noa, untrust |-> a.untrust,
              admitted |-> a.admitted]
        ELSE IF update.kind = "EditedMessage"
        THEN same(<<update.chat_id, update.id>>)
        ELSE same(<<>>)

\* new_user_join for each of the members
RECURSIVE join_all(_, _, _)
join_all(db_untrust, cid, members) ==
    IF members = {} THEN db_untrust
    ELSE LET u == Least(members) IN
         join_all(new_user_join(db_untrust, cid, u), cid, members \ {u})

\* get_user_to_ban: the (chat, user) to ban or <<>> for None, and the db it
\* leaves
get_user_to_ban(db_untrust, update) ==
    LET m == update.msg
        cid == update.chat_id
        same == [ban |-> <<>>, untrust |-> db_untrust]
        b == should_ban_user(db_untrust, cid, m.from.id)
    IN  IF update.kind # "Message" THEN same
        ELSE IF m.kind = "NewChatMembers"
        THEN [ban |-> <<>>, untrust |-> join_all(db_untrust, cid, m.members)]
        ELSE IF m.kind = "Common"
        THEN IF is_message_likely_spam(m)
             THEN [ban |-> IF b.ret THEN <<cid, m.from.id>> ELSE <<>>,
                   untrust |-> b.untrust]
             ELSE same
        ELSE IF m.kind = "LeftChatMember"
        THEN [ban |-> <<>>,
              untrust |-> stop_trace_user(db_untrust, cid, Least(m.members))]
        ELSE same

\* the Action of the two results
action_of(delete, ban) ==
    IF delete # <<>> /\ ban # <<>> THEN "DeleteAndBan"
    ELSE IF delete # <<>> THEN "Delete"
    ELSE IF ban # <<>> THEN "Ban"
    ELSE "Accept"

\* an update is handled: get_message_to_delete, then get_user_to_ban
PolicyUpdate ==
    /\ decision.n < MaxPolicyEvents
    /\ \E update \in Updates(decision.n + 1) :
          LET d == get_message_to_delete(user_noa, untrust, update)
              b == get_user_to_ban(d.untrust, update)
          IN  /\ user_noa' = d.user_noa
              /\ untrust' = b.untrust
              /\ graduated' = IF d.admitted
                              THEN graduated \cup {update.msg.from.id}
                              ELSE graduated
              /\ decision' = [n |-> decision.n + 1, update |-> update,
                              delete |-> d.delete, ban |-> b.ban,
                              admitted |-> d.admitted,
                              action |-> action_of(d.delete, b.ban),
                              noa_changed |-> user_noa' # user_noa,
                              untrust_changed |-> untrust' # untrust]
    /\ UNCHANGED otherThanPolicy

InitSpecPolicy ==
    /\ AddIdle /\ InitStore /\ InitActions /\ InitMain /\ InitFile
    /\ InitLock /\ InitSweep /\ InitPolicy /\ InitText /\ InitNames /\ InitPct
    /\ InitCheck

NextPolicy == PolicyUpdate

SpecPolicy == InitSpecPolicy /\ [][NextPolicy]_vars

----------------------------------------------------------------------------
(* check_message_text: antispam/mod.rs.  A text is a sequence of pieces;   *)
(* a pattern is the set of the pieces one of its alternatives matches, and  *)
(* Regex::is_match finds a match anywhere in the text.  The pieces stand    *)
(* for: the filler (no risk), a high-risk term, a term of which the high-   *)
(* risk pattern matches the whole and the medium-risk pattern a part (招人, *)
(* 招), a medium-risk term, and digits that no pattern matches.            *)

Pieces == {"ah", "open_account", "recruit", "5k", "123"}

RE_SPAM_NO_RISK == {"ah"}
RE_SPAM_HIGH_RISK == {"open_account", "recruit"}
RE_SPAM_MEDIUM_RISK == {"recruit", "5k"}

MaxTextLen == 3

\* the texts of at most MaxTextLen pieces, the empty one among them
Texts == UNION {[1..n -> Pieces] : n \in 0..MaxTextLen}

\* Regex::is_match
is_match(re, haystack) == \E i \in DOMAIN haystack : haystack[i] \in re

\* a bug: the high-risk pattern is tried before the no-risk pattern
check_message_text_high_first(haystack) ==
    IF is_match(RE_SPAM_HIGH_RISK, haystack) THEN new_spam(now)
    ELSE IF is_match(RE_SPAM_NO_RISK, haystack) THEN with_score(0, now)
    ELSE IF is_match(RE_SPAM_MEDIUM_RISK, haystack)
    THEN with_score(TEXT_SPAM_SCORE_MEDIUM_RISK, now)
    ELSE with_score(TEXT_SPAM_SCORE_UNKNOWN_RISK, now)

check_message_text(haystack) ==
    IF is_match(RE_SPAM_NO_RISK, haystack) THEN with_score(0, now)
    ELSE IF is_match(RE_SPAM_HIGH_RISK, haystack) THEN new_spam(now)
    ELSE IF is_match(RE_SPAM_MEDIUM_RISK, haystack)
    THEN with_score(TEXT_SPAM_SCORE_MEDIUM_RISK, now)
    ELSE with_score(TEXT_SPAM_SCORE_UNKNOWN_RISK, now)

(* SpecText: check_message_text is called with any text, at any reading of *)
(* the clock.                                                               *)

CheckMessageText ==
    /\ \E haystack \in Texts :
          /\ msg_text' = haystack
          /\ verdict' = check_message_text(haystack)
    /\ UNCHANGED otherThanText

TextClockTick ==
    /\ Tick
    /\ UNCHANGED <<addVars, actionVars, mainVars, fileVars, lockVars,
                   sweepVars, policyVars, textVars, namesVars, pctVars,
                   checkVars>>

InitSpecText ==
    /\ AddIdle /\ InitStore /\ InitActions /\ InitMain /\ InitFile
    /\ InitLock /\ InitSweep /\ InitPolicy /\ InitText /\ InitNames /\ InitPct
    /\ InitCheck

NextText == CheckMessageText \/ TextClockTick

SpecText == InitSpecText /\ [][NextText]_vars

----------------------------------------------------------------------------
(* SpamNames: antispam/spam_names.rs.  The table maps a full name to its   *)
(* Encounter; a name the HashMap does not hold is Vacant.  now is what      *)
(* now_ts_secs() reads, in seconds.                                        *)

NEVER_STALE_DAYS == 28
RETURNER_STALE_DAYS == 90
\* 3600 * 24, the seconds of a day
DAY_SECS == 86400

\* encounters per name
MaxCount == 2

\* the readings of the clock at which the table is used: a start, half a
\* day later, and around 28 and 90 days after the start
NameClock ==
    {0, DAY_SECS \div 2,
     28 * DAY_SECS, 28 * DAY_SECS + DAY_SECS \div 2, 29 * DAY_SECS,
     90 * DAY_SECS, 90 * DAY_SECS + DAY_SECS \div 2, 91 * DAY_SECS}

\* Encounter::default() at t
Encounter_default(t) ==
    [count |-> 0, first_seen_ts_secs |-> t, last_seen_ts_secs |-> t]

\* SpamNames::encounter: entry(full_name).or_default().encounter()
encounter(names, full_name, t) ==
    LET e == IF names[full_name] = Vacant
             THEN Encounter_default(t)
             ELSE names[full_name]
    IN  [names EXCEPT ![full_name] =
            [e EXCEPT !.count = @ + 1, !.last_seen_ts_secs = t]]

\* the closure of cleanup_stale_entries: days is a whole number, the
\* quotient of the u64 division
retain(e, t) ==
    LET days == (t - e.last_seen_ts_secs) \div DAY_SECS IN
    days <= NEVER_STALE_DAYS \/ (e.count > 1 /\ days <= RETURNER_STALE_DAYS)

\* SpamNames::cleanup_stale_entries: HashMap::retain
cleanup_stale_entries(names, t) ==
    [n \in DOMAIN names |->
        IF names[n] # Vacant /\ retain(names[n], t) THEN names[n] ELSE Vacant]

(* SpecNames: names are encountered, time passes and the table is cleaned  *)
(* up, in any order.                                                        *)

NamesEncounter ==
    /\ \E n \in FullNames :
          /\ IF spam_names[n] = Vacant
             THEN TRUE
             ELSE spam_names[n].count < MaxCount
          /\ spam_names' = encounter(spam_names, n, now)
          /\ swept' = [op |-> "encounter", before |-> spam_names,
                       after |-> spam_names', at |-> now]
    /\ UNCHANGED <<users, chats, now, last>>
    /\ UNCHANGED otherThanNames

NamesTimePasses ==
    /\ \E t \in NameClock : t > now /\ now' = t
    /\ UNCHANGED <<users, chats, last, spam_names, swept>>
    /\ UNCHANGED otherThanNames

NamesCleanup ==
    /\ spam_names' = cleanup_stale_entries(spam_names, now)
    /\ swept' = [op |-> "cleanup", before |-> spam_names,
                 after |-> spam_names', at |-> now]
    /\ UNCHANGED <<users, chats, now, last>>
    /\ UNCHANGED otherThanNames

InitSpecNames ==
    /\ AddIdle /\ InitStore /\ InitActions /\ InitMain /\ InitFile
    /\ InitLock /\ InitSweep /\ InitPolicy /\ InitText /\ InitNames /\ InitPct
    /\ InitCheck

NextNames == NamesEncounter \/ NamesTimePasses \/ NamesCleanup

SpecNames == InitSpecNames /\ [][NextNames]_vars

----------------------------------------------------------------------------
(* percentile: antispam/background.rs.  Its arithmetic is f32.  An f32 is   *)
(* written <<m, d>>, the value m / d with d a power of two and m of at most *)
(* 24 significant bits; each operation gives the f32 nearest to the exact   *)
(* result, ties to the even significand, as IEEE 754 does.                  *)

\* the integer nearest to a / b, ties to even (b > 0)
rne(a, b) ==
    LET q == a \div b
        r == a % b
    IN  IF 2 * r < b THEN q
        ELSE IF 2 * r > b THEN q + 1
        ELSE IF q % 2 = 0 THEN q ELSE q + 1

\* the f32 nearest to m / d, for d a power of two
f32_nearest(m, d) ==
    LET s == CHOOSE i \in 0..8 :
                 m < 2^(24 + i) /\ (i = 0 \/ m >= 2^(23 + i))
    IN  <<rne(m, 2^s), d \div 2^s>>

\* a / b in f32, for whole a >= 0 and b > 0 of few digits: k / 100.0
f32_div(a, b) ==
    IF a = 0 THEN <<0, 1>>
    ELSE LET p == CHOOSE i \in 0..30 :
                      /\ a * 2^i >= b * 2^23
                      /\ (i = 0 \/ a * 2^(i - 1) < b * 2^23)
         IN  <<rne(a * 2^p, b), 2^p>>

\* 1.0 - x in f32, for 0 <= x <= 1
f32_one_minus(x) == f32_nearest(x[2] - x[1], x[2])

\* x * (n as f32) in f32, for a small whole n
f32_mul(x, n) == f32_nearest(x[1] * n, x[2])

\* f32::round, halves away from zero, then as usize (x >= 0)
f32_round(x) ==
    IF x[2] = 1 THEN x[1] ELSE (x[1] + x[2] \div 2) \div x[2]

\* ((1.0 - k / 100.0) * (nums.len() as f32)).round() as usize,
\* then clamp(1, usize::MAX)
top_n(k, len) ==
    LET n == f32_round(f32_mul(f32_one_minus(f32_div(k, 100)), len)) IN
    IF n < 1 THEN 1 ELSE n

\* BTreeSet::first, the least item
first(tops) == CHOOSE x \in tops : \A y \in tops : x <= y

\* a bug: the least item is not taken out when a greater one comes in
tops_insert_no_pop(tops, num, n) ==
    IF Cardinality(tops) < n THEN tops \cup {num}
    ELSE IF num > first(tops) THEN tops \cup {num}
    ELSE tops

\* one turn of the loop over nums
tops_insert(tops, num, n) ==
    IF Cardinality(tops) < n THEN tops \cup {num}
    ELSE IF num > first(tops) THEN (tops \ {first(tops)}) \cup {num}
    ELSE tops

RECURSIVE tops_of(_, _, _)
\* the loop: tops after the items of nums from the i-th on
tops_of(nums, tops, n) ==
    IF nums = <<>> THEN tops
    ELSE tops_of(Tail(nums), tops_insert(tops, Head(nums), n), n)

\* percentile(k, nums): None for no items, a panic for k outside [0, 100]
percentile(k, nums) ==
    IF k < 0 \/ k > 100 THEN [tag |-> "panic", v |-> 0]
    ELSE LET tops == tops_of(nums, {}, top_n(k, Len(nums))) IN
         IF tops = {} THEN [tag |-> "None", v |-> 0]
         ELSE [tag |-> "Some", v |-> first(tops)]

MaxPctLen == 3
PctValues == 0..3

\* the lists of at most MaxPctLen distinct values in every order, and the
\* ten values 0..9 in three orders
NumLists ==
    {s \in UNION {[1..n -> PctValues] : n \in 0..MaxPctLen} :
        \A i, j \in DOMAIN s : i # j => s[i] # s[j]}
    \cup {<<0, 1, 2, 3, 4, 5, 6, 7, 8, 9>>, <<9, 8, 7, 6, 5, 4, 3, 2, 1, 0>>,
          <<3, 9, 0, 5, 8, 1, 7, 2, 6, 4>>}

\* UID_PERCENTILE, the k of test_percentile, and k around them
Ks == {0, 50, 84, 85, 98, 100, 101}

(* SpecPercentile: percentile is called with any k and list.               *)

Percentile ==
    /\ \E k \in Ks, nums \in NumLists :
          /\ pct_k' = k
          /\ pct_nums' = nums
          /\ pct_ret' = percentile(k, nums)
    /\ UNCHANGED otherThanPct

InitSpecPercentile ==
    /\ AddIdle /\ InitStore /\ InitActions /\ InitMain /\ InitFile
    /\ InitLock /\ InitSweep /\ InitPolicy /\ InitText /\ InitNames /\ InitPct
    /\ InitCheck

NextPercentile == Percentile

SpecPercentile == InitSpecPercentile /\ [][NextPercentile]_vars

----------------------------------------------------------------------------
(* Actions: action.rs.  A task is the async block that spwan_delete_message *)
(* or spawn_ban_user hands to tokio::spawn; it owns its permit until its    *)
(* last statement, drop(permit), so a task ends and gives the permit back   *)
(* in one step.  res is what one request to the platform returned: its      *)
(* kind is "Ok" or the error, arg the seconds of RetryAfter or the chat of  *)
(* MigrateToChatId.                                                         *)

Result(kind, arg) == [kind |-> kind, arg |-> arg]

\* errors after which delete_message tries again while retry < max_retry
RetriedErrors == {"RetryAfter", "Network", "MigrateToChatId"}

\* errors delete_message takes as done: the message is gone, may not be
\* deleted, or the bot is out of the chat
SettledErrors ==
    {"MessageToDeleteNotFound", "MessageIdInvalid", "MessageCantBeDeleted",
     "BotKicked", "ChatNotFound"}

MsgIds == {1, 2}

\* the seconds a RetryAfter carries; a negative one fails try_into
RetryAfterSecs == {-1, 3}

\* every result of bot.delete_message(..).send()
DeleteResults ==
    {Result(k, 0) : k \in {"Ok", "Network", "Other"} \cup SettledErrors}
    \cup {Result("RetryAfter", secs) : secs \in RetryAfterSecs}
    \cup {Result("MigrateToChatId", c) : c \in ChatIds}

\* the results the platform gives while several tasks run side by side
CommonResults == {Result(k, 0) : k \in {"Ok", "Network", "Other"}}

\* every result of bot.ban_chat_member(..).send()
BanResults == {Result(k, 0) : k \in {"Ok", "Network", "RetryAfter", "Other"}}

\* the task of spwan_delete_message before its first request; target is
\* the msg_id
delete_task(chat_id, msg_id) ==
    [kind |-> "delete", pc |-> "send", chat_id |-> chat_id, target |-> msg_id,
     retry |-> 0, requests |-> 0, netfails |-> 0, delay |-> 0,
     error |-> "none", result |-> "none"]

\* the task of spawn_ban_user before its request; target is the user_id
ban_task(chat_id, user_id) ==
    [kind |-> "ban", pc |-> "send", chat_id |-> chat_id, target |-> user_id,
     retry |-> 0, requests |-> 0, netfails |-> 0, delay |-> 0,
     error |-> "none", result |-> "none"]

\* secs.try_into().map(Duration::from_secs).unwrap_or(RETRY_BASE_DELAY)
retry_after_delay(secs) == IF secs >= 0 THEN secs ELSE RETRY_BASE_DELAY

\* a bug: the delay does not grow
network_delay_flat(retry) == RETRY_BASE_DELAY

\* RETRY_BASE_DELAY * 2u32.pow(retry), the sleep of the Network arm
network_delay(retry) == RETRY_BASE_DELAY * 2^retry

\* a bug: the guards read retry <= max_retry
may_retry_once_more(retry, max_retry) == retry <= max_retry

\* the guard of the three retrying arms: retry < max_retry
may_retry(retry, max_retry) == retry < max_retry

\* a bug: the arms of the settled errors carry the guard of the retrying
\* arms
is_settled_within_budget(kind, retry, max_retry) ==
    kind \in SettledErrors /\ retry < max_retry

\* the arms of MessageToDeleteNotFound .. ChatNotFound: no guard, whatever
\* retry is
is_settled(kind, retry, max_retry) == kind \in SettledErrors

\* delete_message: one turn of the loop from the request to the sleep, the
\* next turn or the break
delete_message_step(t, res, max_retry) ==
    LET sent == [t EXCEPT !.requests = @ + 1, !.error = res.kind] IN
    CASE res.kind = "Ok" ->
            [sent EXCEPT !.pc = "break", !.result = "Ok"]
      [] res.kind = "RetryAfter" /\ may_retry(t.retry, max_retry) ->
            [sent EXCEPT !.pc = "sleep", !.delay = retry_after_delay(res.arg)]
      [] res.kind = "Network" /\ may_retry(t.retry, max_retry) ->
            [sent EXCEPT !.pc = "sleep",
                         !.delay = network_delay(t.retry),
                         !.netfails = @ + 1]
      [] res.kind = "MigrateToChatId" /\ may_retry(t.retry, max_retry) ->
            [sent EXCEPT !.chat_id = res.arg, !.retry = @ + 1,
                         !.error = "none"]
      [] is_settled(res.kind, t.retry, max_retry) ->
            [sent EXCEPT !.pc = "break", !.result = "Ok"]
      [] OTHER ->
            [sent EXCEPT !.pc = "break", !.result = "Err"]

\* delete_message: the sleep is over; retry += 1 and the next turn
delete_message_wake(t) ==
    [t EXCEPT !.pc = "send", !.retry = @ + 1, !.delay = 0, !.error = "none"]

\* a bug: a request that failed is sent once more in place
ban_user_step_retried(t, res) ==
    [t EXCEPT !.requests = IF res.kind = "Ok" THEN @ + 1 ELSE @ + 2,
              !.error = res.kind, !.pc = "break",
              !.result = IF res.kind = "Ok" THEN "Ok" ELSE "Err"]

\* ban_user: one request, no retry
ban_user_step(t, res) ==
    [t EXCEPT !.requests = @ + 1, !.error = res.kind, !.pc = "break",
              !.result = IF res.kind = "Ok" THEN "Ok" ELSE "Err"]

\* a bug: the task is spawned without a permit
acquire_unlimited(c, task) ==
    /\ tasks' = tasks (+) SetToBag({task})
    /\ UNCHANGED <<outstanding_limit, waiters, callers, ended>>

\* acquire_owned().await with a permit free, then tokio::spawn: the caller
\* goes on at once
acquire_now(c, task) ==
    /\ outstanding_limit > 0
    /\ outstanding_limit' = outstanding_limit - 1
    /\ tasks' = tasks (+) SetToBag({task})
    /\ UNCHANGED <<waiters, callers, ended>>

\* a bug: the caller is queued although a permit may be free
acquire_wait_early(c, task) ==
    /\ waiters' = Append(waiters, c)
    /\ callers' = [callers EXCEPT ![c] = [pc |-> "waiting", call |-> task]]
    /\ UNCHANGED <<outstanding_limit, tasks, ended>>

\* acquire_owned().await with no permit free: the caller is queued
acquire_wait(c, task) ==
    /\ outstanding_limit = 0
    /\ waiters' = Append(waiters, c)
    /\ callers' = [callers EXCEPT ![c] = [pc |-> "waiting", call |-> task]]
    /\ UNCHANGED <<outstanding_limit, tasks, ended>>

\* spwan_delete_message / spawn_ban_user, called by c
spawn(c, task) ==
    /\ callers[c].pc = "idle"
    /\ acquire_now(c, task) \/ acquire_wait(c, task)

\* the caller holds the permit it waited for: tokio::spawn and return
spawn_granted(c) ==
    /\ callers[c].pc = "granted"
    /\ tasks' = tasks (+) SetToBag({callers[c].call})
    /\ callers' = [callers EXCEPT ![c] = Idle]
    /\ UNCHANGED <<outstanding_limit, waiters, ended>>

\* a bug: the permit of a task whose request failed is not given back
task_end_leak(t, t2) ==
    /\ tasks' = tasks (-) SetToBag({t})
    /\ ended' = t2
    /\ IF t2.result = "Err"
       THEN UNCHANGED <<outstanding_limit, waiters, callers>>
       ELSE IF waiters = <<>>
       THEN /\ outstanding_limit' = outstanding_limit + 1
            /\ UNCHANGED <<waiters, callers>>
       ELSE /\ waiters' = Tail(waiters)
            /\ callers' = [callers EXCEPT ![Head(waiters)].pc = "granted"]
            /\ UNCHANGED outstanding_limit

\* drop(permit) at the end of the task t, which ends as t2: the permit goes
\* to the caller queued first, or back to the semaphore
task_end(t, t2) ==
    /\ tasks' = tasks (-) SetToBag({t})
    /\ ended' = t2
    /\ IF waiters = <<>>
       THEN /\ outstanding_limit' = outstanding_limit + 1
            /\ UNCHANGED <<waiters, callers>>
       ELSE /\ waiters' = Tail(waiters)
            /\ callers' = [callers EXCEPT ![Head(waiters)].pc = "granted"]
            /\ UNCHANGED outstanding_limit

\* the task t goes on as t2
task_goes_on(t, t2) ==
    /\ tasks' = (tasks (-) SetToBag({t})) (+) SetToBag({t2})
    /\ UNCHANGED <<outstanding_limit, waiters, callers, ended>>

\* a request of a delete task returns one of results
delete_request(results) ==
    \E t \in BagToSet(tasks), res \in results :
        /\ t.kind = "delete" /\ t.pc = "send"
        /\ LET t2 == delete_message_step(t, res, MaxRetry) IN
           IF t2.pc = "break" THEN task_end(t, t2) ELSE task_goes_on(t, t2)

\* the sleep of a delete task is over
delete_wake ==
    \E t \in BagToSet(tasks) :
        /\ t.kind = "delete" /\ t.pc = "sleep"
        /\ task_goes_on(t, delete_message_wake(t))

\* the request of a ban task returns
ban_request ==
    \E t \in BagToSet(tasks), res \in BanResults :
        /\ t.kind = "ban" /\ t.pc = "send"
        /\ task_end(t, ban_user_step(t, res))

(* SpecActions: the two callers of Actions, the event loop and the          *)
(* background check, call spwan_delete_message and spawn_ban_user at any    *)
(* time, and the spawned tasks run.                                         *)

CallDelete ==
    /\ \E c \in Callers : spawn(c, delete_task(1, 1))
    /\ UNCHANGED otherThanActions

CallBan ==
    /\ \E c \in Callers : spawn(c, ban_task(1, 1))
    /\ UNCHANGED otherThanActions

SpawnGranted ==
    /\ \E c \in Callers : spawn_granted(c)
    /\ UNCHANGED otherThanActions

DeleteRequest == delete_request(CommonResults) /\ UNCHANGED otherThanActions

DeleteWake == delete_wake /\ UNCHANGED otherThanActions

BanRequest == ban_request /\ UNCHANGED otherThanActions

InitSpecActions == AddIdle /\ InitStore /\ InitActions /\ InitMain /\ InitFile /\ InitLock /\ InitSweep /\ InitPolicy /\ InitText /\ InitNames /\ InitPct /\ InitCheck

NextActions ==
    \/ CallDelete
    \/ CallBan
    \/ SpawnGranted
    \/ DeleteRequest
    \/ DeleteWake
    \/ BanRequest

SpecActions == InitSpecActions /\ [][NextActions]_vars

(* SpecActionsFair: each platform request returns and each sleep ends, so   *)
(* a task that can take a step takes one; a caller that holds the permit it *)
(* waited for is woken and goes on.                                         *)
SpecActionsFair ==
    /\ SpecActions
    /\ WF_vars(DeleteRequest) /\ WF_vars(DeleteWake) /\ WF_vars(BanRequest)
    /\ \A c \in Callers :
          WF_vars(spawn_granted(c) /\ UNCHANGED otherThanActions)

(* SpecDelete: one delete_message from its first request to its end, the   *)
(* platform answering each request with any result.                        *)

InitDelete ==
    /\ AddIdle /\ InitStore /\ InitMain /\ InitFile /\ InitLock /\ InitSweep /\ InitPolicy /\ InitText /\ InitNames /\ InitPct /\ InitCheck
    /\ outstanding_limit = MaxOutstanding - 1
    /\ waiters = <<>>
    /\ callers = [c \in Callers |-> Idle]
    /\ \E chat_id \in ChatIds, msg_id \in MsgIds :
          tasks = SetToBag({delete_task(chat_id, msg_id)})
    /\ ended = NoTask

DeleteRequestAny == delete_request(DeleteResults) /\ UNCHANGED otherThanActions

NextDelete == DeleteRequestAny \/ DeleteWake

SpecDelete == InitDelete /\ [][NextDelete]_vars /\ WF_vars(NextDelete)

----------------------------------------------------------------------------
(* BackgroundSpamCheck::check_spam: antispam/background.rs 45-105.  It     *)
(* runs in the task of launch beside the event loop; every .await of it is *)
(* a step, and between two steps the event loop, the ban tasks and the     *)
(* platform may act.  The store holds the users SweepIds: 1..9 are         *)
(* Authentic for good, the others are the users the runs differ in.        *)

MIN_AUTHENTIC_USERS == 10
UID_PERCENTILE == 98
\* 30 * 60 seconds
NEW_USER_GRACE_TIME == 1800

\* sweeps per run of the model
MaxSweeps == 2

SweepIds == 1..12
FreeIds == {10, 11, 12}
\* the readings of the clock: the start, and a grace time later to the
\* second and one second on
SweepClock ==
    {NEW_USER_GRACE_TIME, 2 * NEW_USER_GRACE_TIME,
     2 * NEW_USER_GRACE_TIME + 1}

\* member.user.full_name() of a user
full_name(uid) == IF uid % 2 = 1 THEN "n1" ELSE "n2"

RECURSIVE ascending(_)
\* the items of a set as a list
ascending(S) ==
    IF S = {} THEN <<>> ELSE <<Least(S)>> \o ascending(S \ {Least(S)})

\* the lists a HashMap's iterator may give the keys S in
Orders(S) ==
    {s \in [1..Cardinality(S) -> S] : \A i, j \in DOMAIN s : i # j => s[i] # s[j]}

\* the first with_user_states: the uid of every authentic user
authentic_uids == {uid \in DOMAIN users : is_authentic(users[uid])}

\* a bug: a user whose score is at the threshold is selected only if the
\* uid and age tests select the user
is_suspect_by_uid_only(state, uid, safe_uid, grace_ts) ==
    /\ state.tag = "MaybeSpam"
    /\ uid > safe_uid /\ state.create_ts_secs < grace_ts

\* the filter_map of the second with_user_states
is_suspect(state, uid, safe_uid, grace_ts) ==
    IF state.tag = "MaybeSpam"
          /\ uid > safe_uid /\ state.create_ts_secs < grace_ts
    THEN TRUE
    ELSE state.tag = "MaybeSpam" /\ is_spam(state)

suspect_uids(safe_uid, grace_ts) ==
    {uid \in DOMAIN users : is_suspect(users[uid], uid, safe_uid, grace_ts)}

\* a bug: a sweep with one authentic user too few is not skipped
too_few_but_one(uids) == Cardinality(uids) < MIN_AUTHENTIC_USERS - 1

\* if uids.len() < MIN_AUTHENTIC_USERS: skip check
too_few(uids) == Cardinality(uids) < MIN_AUTHENTIC_USERS

\* check_spam is called; it returns at once with fewer than
\* MIN_AUTHENTIC_USERS authentic users, else it computes safe_uid
CheckStart ==
    /\ check.pc = "idle"
    /\ check.sweeps < MaxSweeps
    /\ IF too_few(authentic_uids)
       THEN check' = [check EXCEPT !.sweeps = @ + 1, !.result = "skipped"]
       ELSE check' = [check EXCEPT
                        !.pc = "scan", !.result = "none",
                        !.safe_uid = percentile(UID_PERCENTILE,
                                                ascending(authentic_uids)).v]
    /\ UNCHANGED <<storeVars, actionVars, namesVars, present>>
    /\ UNCHANGED otherThanCheck

\* grace_ts and the second with_user_states: suspect_uids, in any order
CheckScan ==
    /\ check.pc = "scan"
    /\ \E s \in Orders(suspect_uids(check.safe_uid, now - NEW_USER_GRACE_TIME)) :
          check' = [check EXCEPT !.pc = "loop", !.suspect_uids = s]
    /\ UNCHANGED <<storeVars, actionVars, namesVars, present>>
    /\ UNCHANGED otherThanCheck

\* for uid in suspect_uids: storage.update_user(&uid, SpamState::new_spam())
CheckUpdate ==
    /\ check.pc = "loop"
    /\ check.suspect_uids # <<>>
    /\ update_user(Head(check.suspect_uids), new_spam(now))
    /\ check' = [check EXCEPT !.pc = "member",
                              !.uid = Head(check.suspect_uids),
                              !.suspect_uids = Tail(@)]
    /\ UNCHANGED <<actionVars, namesVars, present>>
    /\ UNCHANGED otherThanCheck

\* bot.get_chat_member fails: the next uid
CheckMemberErr ==
    /\ check.pc = "member"
    /\ check' = [check EXCEPT !.pc = "loop"]
    /\ UNCHANGED <<storeVars, actionVars, namesVars, present>>
    /\ UNCHANGED otherThanCheck

\* the member is present: actions.spawn_ban_user(self.cid, uid)
CheckMemberPresent ==
    /\ check.pc = "member"
    /\ check.uid \in present
    /\ spawn("sweep", ban_task(Least(ChatIds), check.uid))
    /\ check' = [check EXCEPT !.pc = "names"]
    /\ UNCHANGED <<storeVars, namesVars, present>>
    /\ UNCHANGED otherThanCheck

\* the member is not present: storage.remove_user(&uid)
CheckMemberGone ==
    /\ check.pc = "member"
    /\ check.uid \notin present
    /\ remove_user(check.uid)
    /\ check' = [check EXCEPT !.pc = "names"]
    /\ UNCHANGED <<actionVars, namesVars, present>>
    /\ UNCHANGED otherThanCheck

\* spawn_ban_user got the permit it waited for
CheckGranted ==
    /\ spawn_granted("sweep")
    /\ UNCHANGED <<storeVars, namesVars, checkVars>>
    /\ UNCHANGED otherThanCheck

\* with_spam_names(|names| names.encounter(member.user.full_name()))
CheckNames ==
    /\ check.pc = "names"
    /\ callers["sweep"].pc = "idle"
    /\ spam_names' = encounter(spam_names, full_name(check.uid), now)
    /\ swept' = [op |-> "encounter", before |-> spam_names,
                 after |-> spam_names', at |-> now]
    /\ check' = [check EXCEPT !.pc = "loop"]
    /\ UNCHANGED <<storeVars, actionVars, present>>
    /\ UNCHANGED otherThanCheck

\* after the loop: with_spam_names(|names| names.cleanup_stale_entries())
CheckCleanup ==
    /\ check.pc = "loop"
    /\ check.suspect_uids = <<>>
    /\ spam_names' = cleanup_stale_entries(spam_names, now)
    /\ swept' = [op |-> "cleanup", before |-> spam_names,
                 after |-> spam_names', at |-> now]
    /\ check' = [check EXCEPT !.pc = "save"]
    /\ UNCHANGED <<storeVars, actionVars, present>>
    /\ UNCHANGED otherThanCheck

\* self.storage.save().await?; Ok(())
CheckSave ==
    /\ check.pc = "save"
    /\ \E r \in {"Ok", "Err"} :
          check' = [check EXCEPT !.pc = "idle", !.sweeps = @ + 1,
                                 !.saves = @ + 1, !.result = r]
    /\ UNCHANGED <<storeVars, actionVars, namesVars, present>>
    /\ UNCHANGED otherThanCheck

\* the request of a ban task returns; a ban that succeeds takes the user
\* out of the chat
CheckBanRequest ==
    /\ \E t \in BagToSet(tasks), res \in BanResults :
          /\ t.kind = "ban" /\ t.pc = "send"
          /\ task_end(t, ban_user_step(t, res))
          /\ present' = IF res.kind = "Ok" THEN present \ {t.target}
                        ELSE present
    /\ UNCHANGED <<storeVars, namesVars, check>>
    /\ UNCHANGED otherThanCheck

\* the event loop, on an admitted message of a user who is not spam: the
\* sender is marked Authentic
Graduate ==
    /\ \E uid \in FreeIds :
          /\ uid \in present
          /\ users[uid].tag = "MaybeSpam" /\ ~is_spam(users[uid])
          /\ update_user(uid, Authentic)
    /\ UNCHANGED <<actionVars, namesVars, checkVars>>
    /\ UNCHANGED otherThanCheck

\* a member leaves the chat
Leave ==
    /\ \E uid \in present : present' = present \ {uid}
    /\ UNCHANGED <<storeVars, actionVars, namesVars, check>>
    /\ UNCHANGED otherThanCheck

CheckTimePasses ==
    /\ \E t \in SweepClock : t > now /\ now' = t
    /\ UNCHANGED <<users, chats, last, actionVars, namesVars, checkVars>>
    /\ UNCHANGED otherThanCheck

(* SpecCheck: sweeps run one after the other beside the event loop, the    *)
(* ban tasks and the platform.                                              *)

InitSpecCheck ==
    /\ AddIdle /\ InitActions /\ InitMain /\ InitFile /\ InitLock
    /\ InitSweep /\ InitPolicy /\ InitText /\ InitNames /\ InitPct
    /\ now = NEW_USER_GRACE_TIME
    /\ \E s10 \in {Authentic, with_score(0, now)},
          s11 \in {with_score(0, now), new_spam(now)},
          s12 \in {Vacant, with_score(0, now)} :
          users = [uid \in SweepIds |->
                      IF uid = 10 THEN s10
                      ELSE IF uid = 11 THEN s11
                      ELSE IF uid = 12 THEN s12
                      ELSE Authentic]
    /\ chats = [c \in ChatIds |-> VacantChat]
    /\ last = [op |-> "none"]
    /\ present = FreeIds
    /\ check = [pc |-> "idle", safe_uid |-> 0, suspect_uids |-> <<>>,
                uid |-> 0, sweeps |-> 0, saves |-> 0, result |-> "none"]

NextCheck ==
    \/ CheckStart
    \/ CheckScan
    \/ CheckUpdate
    \/ CheckMemberErr
    \/ CheckMemberPresent
    \/ CheckMemberGone
    \/ CheckGranted
    \/ CheckNames
    \/ CheckCleanup
    \/ CheckSave
    \/ CheckBanRequest
    \/ Graduate
    \/ Leave
    \/ CheckTimePasses

SpecCheck == InitSpecCheck /\ [][NextCheck]_vars

----------------------------------------------------------------------------
(* The event loop: bin/ahgroupbot.rs, main.  It is one task: each await of *)
(* the loop body is a position of main.pc, and the loop goes on only when  *)
(* the awaited call has returned.  The updates reach the stream in the     *)
(* order of their ids.  PolicyState::check_update and PolicyState::save    *)
(* are called here and return an Action and a Result.                      *)

PolicyActions == {"Accept", "Delete", "Ban", "DeleteAndBan"}

\* Action::get_delete, Action::get_ban: is there something to delete, to ban
get_delete(action) == action \in {"Delete", "DeleteAndBan"}
get_ban(action) == action \in {"Ban", "DeleteAndBan"}

\* the platform has a new update for the bot
Arrive ==
    /\ arrived < MaxEvents
    /\ arrived' = arrived + 1
    /\ pending' = Append(pending, arrived + 1)
    /\ UNCHANGED <<main, progress, order>>
    /\ UNCHANGED <<otherThanMain, actionVars>>

\* a bug: check_update, save and the dispatch are spawned as a task of
\* their own and the loop takes the next update at once
MainNextOkDetached ==
    /\ main.pc = "next"
    /\ pending # <<>>
    /\ pending' = Tail(pending)
    /\ main' = [main EXCEPT !.update = Head(pending), !.retry_count = 0]
    /\ progress' = [progress EXCEPT ![Head(pending)] = "check"]
    /\ order' = Append(order, Head(pending))
    /\ UNCHANGED arrived
    /\ UNCHANGED <<otherThanMain, actionVars>>

\* stream.next() gives Ok(update): retry_count = 0 and check_update is called
MainNextOk ==
    /\ main.pc = "next"
    /\ pending # <<>>
    /\ pending' = Tail(pending)
    /\ main' = [main EXCEPT !.pc = "check", !.update = Head(pending),
                            !.retry_count = 0]
    /\ progress' = [progress EXCEPT ![Head(pending)] = "check"]
    /\ order' = Append(order, Head(pending))
    /\ UNCHANGED arrived
    /\ UNCHANGED <<otherThanMain, actionVars>>

\* stream.next() gives Err(Network): sleep and continue while
\* retry_count < MAX_RETRY, else return the error
MainNextNetwork ==
    /\ main.pc = "next"
    /\ main' = IF main.retry_count < MaxRetry
               THEN [main EXCEPT !.pc = "sleep"]
               ELSE [main EXCEPT !.pc = "returned", !.result = "Err"]
    /\ UNCHANGED <<pending, arrived, progress, order>>
    /\ UNCHANGED <<otherThanMain, actionVars>>

\* the sleep is over: retry_count += 1; continue
MainSleepOver ==
    /\ main.pc = "sleep"
    /\ main' = [main EXCEPT !.pc = "next", !.retry_count = @ + 1]
    /\ UNCHANGED <<pending, arrived, progress, order>>
    /\ UNCHANGED <<otherThanMain, actionVars>>

\* stream.next() gives any other Err: return it
MainNextErr ==
    /\ main.pc = "next"
    /\ main' = [main EXCEPT !.pc = "returned", !.result = "Err"]
    /\ UNCHANGED <<pending, arrived, progress, order>>
    /\ UNCHANGED <<otherThanMain, actionVars>>

\* stream.next() gives None: the loop is left and main returns Ok(())
MainNextNone ==
    /\ main.pc = "next"
    /\ main' = [main EXCEPT !.pc = "returned", !.result = "Ok"]
    /\ UNCHANGED <<pending, arrived, progress, order>>
    /\ UNCHANGED <<otherThanMain, actionVars>>

\* policy.check_update(&update).await returns the action; save is called
MainCheckReturns ==
    /\ main.pc = "check"
    /\ \E action \in PolicyActions :
          main' = [main EXCEPT !.pc = "save", !.action = action]
    /\ progress' = [progress EXCEPT ![main.update] = "checked"]
    /\ UNCHANGED <<pending, arrived, order>>
    /\ UNCHANGED <<otherThanMain, actionVars>>

\* policy.save().await? returns Ok(())
MainSaveOk ==
    /\ main.pc = "save"
    /\ main' = [main EXCEPT !.pc = "delete"]
    /\ progress' = [progress EXCEPT ![main.update] = "saved"]
    /\ UNCHANGED <<pending, arrived, order>>
    /\ UNCHANGED <<otherThanMain, actionVars>>

\* a bug: the error of save is dropped and the actions are dispatched
MainSaveErrIgnored ==
    /\ main.pc = "save"
    /\ main' = [main EXCEPT !.pc = "delete"]
    /\ UNCHANGED <<pending, arrived, progress, order>>
    /\ UNCHANGED <<otherThanMain, actionVars>>

\* policy.save().await? returns Err: main returns it
MainSaveErr ==
    /\ main.pc = "save"
    /\ main' = [main EXCEPT !.pc = "returned", !.result = "Err"]
    /\ UNCHANGED <<pending, arrived, progress, order>>
    /\ UNCHANGED <<otherThanMain, actionVars>>

\* if let Some(..) = action.get_delete(): spwan_delete_message(..).await
MainDelete ==
    /\ main.pc = "delete"
    /\ IF get_delete(main.action)
       THEN /\ spawn("main", delete_task(1, main.update))
            /\ main' = [main EXCEPT !.pc = IF outstanding_limit > 0
                                           THEN "ban" ELSE "delete_wait"]
       ELSE /\ main' = [main EXCEPT !.pc = "ban"]
            /\ UNCHANGED actionVars
    /\ UNCHANGED <<pending, arrived, progress, order>>
    /\ UNCHANGED otherThanMain

\* spwan_delete_message returns after its wait for a permit
MainDeleteGranted ==
    /\ main.pc = "delete_wait"
    /\ spawn_granted("main")
    /\ main' = [main EXCEPT !.pc = "ban"]
    /\ UNCHANGED <<pending, arrived, progress, order>>
    /\ UNCHANGED otherThanMain

\* what is left of the loop body once the delete has been handed over:
\* if let Some(..) = action.get_ban(): spawn_ban_user(..).await
MainBan ==
    /\ main.pc = "ban"
    /\ IF get_ban(main.action)
       THEN /\ spawn("main", ban_task(1, 1))
            /\ IF outstanding_limit > 0
               THEN /\ main' = [main EXCEPT !.pc = "next"]
                    /\ progress' = [progress EXCEPT ![main.update] = "handed"]
               ELSE /\ main' = [main EXCEPT !.pc = "ban_wait"]
                    /\ UNCHANGED progress
       ELSE /\ main' = [main EXCEPT !.pc = "next"]
            /\ progress' = [progress EXCEPT ![main.update] = "handed"]
            /\ UNCHANGED actionVars
    /\ UNCHANGED <<pending, arrived, order>>
    /\ UNCHANGED otherThanMain

\* spawn_ban_user returns after its wait for a permit
MainBanGranted ==
    /\ main.pc = "ban_wait"
    /\ spawn_granted("main")
    /\ main' = [main EXCEPT !.pc = "next"]
    /\ progress' = [progress EXCEPT ![main.update] = "handed"]
    /\ UNCHANGED <<pending, arrived, order>>
    /\ UNCHANGED otherThanMain

InitSpecMain == AddIdle /\ InitStore /\ InitActions /\ InitMain /\ InitFile /\ InitLock /\ InitSweep /\ InitPolicy /\ InitText /\ InitNames /\ InitPct /\ InitCheck

NextMain ==
    \/ Arrive
    \/ MainNextOk
    \/ MainNextNetwork
    \/ MainSleepOver
    \/ MainNextErr
    \/ MainNextNone
    \/ MainCheckReturns
    \/ MainSaveOk
    \/ MainSaveErr
    \/ MainDelete
    \/ MainDeleteGranted
    \/ MainBan
    \/ MainBanGranted
    \/ DeleteRequest
    \/ DeleteWake
    \/ BanRequest

SpecMain == InitSpecMain /\ [][NextMain]_vars

----------------------------------------------------------------------------
(* Claims *)

(* C1: update_chat(chat, user, count) is rejected exactly when the chat     *)
(* holds a last admitted pair (lastUser, lastCount) and either user =       *)
(* lastUser, or count > 3 and count > lastCount + 1; in every other case,   *)
(* a chat without history included, it is admitted and the chat's slot      *)
(* becomes (user, count).                                                   *)
C1_UpdateChatRejectsExactly ==
    [][last'.op = "update_chat" =>
        LET c == last'.chat_id
            u == last'.user_id
            n == last'.noa
            rejected == /\ chats[c] # VacantChat
                        /\ \/ u = chats[c][1]
                           \/ n > 3 /\ n > chats[c][2] + 1
        IN  /\ last'.ret # "Ok" <=> rejected
            /\ ~rejected => chats'[c] = <<u, n>>]_vars

\* a count above 3 that exceeds the last count by two or more was rejected,
\* from a user other than the last admitted one
C1_Witness ==
    /\ last.op = "update_chat"
    /\ last.ret = "No too many ah in a single message"
    /\ chats[last.chat_id] # VacantChat
    /\ chats[last.chat_id][1] # last.user_id
    /\ last.noa > chats[last.chat_id][2] + 1

(* C2: once a user's stored state is Authentic, every later update_user    *)
(* for that user leaves it Authentic and returns Authentic, whatever the    *)
(* delta is, confirmed spam included.                                       *)
C2_AuthenticStaysAuthentic ==
    [][(last'.op = "update_user" /\ users[last'.user_id] = Authentic) =>
        /\ users'[last'.user_id] = Authentic
        /\ last'.ret = Authentic]_vars

\* a confirmed-spam delta was merged into a user who is Authentic: only an
\* Authentic stored state gives Authentic from a MaybeSpam delta
C2_Witness ==
    /\ last.op = "update_user"
    /\ is_spam(last.new_state)
    /\ users[last.user_id] = Authentic

(* C3: at every moment the delete and ban tasks that Actions has spawned   *)
(* and that have not ended number at most max_outstanding_requests, under   *)
(* every interleaving of the two callers and the running tasks; every       *)
(* permit is free, held by such a task or granted to a queued caller.       *)
C3_OutstandingTasksBounded ==
    /\ BagCardinality(tasks) <= MaxOutstanding
    /\ \A t \in BagToSet(tasks) : t.kind \in {"delete", "ban"}
    /\ outstanding_limit >= 0
    /\ BagCardinality(tasks) + outstanding_limit
         + Cardinality({c \in DOMAIN callers : callers[c].pc = "granted"})
       = MaxOutstanding

\* the ceiling is reached by a delete and a ban task while both callers
\* are queued for a permit
C3_Witness ==
    /\ BagCardinality(tasks) = MaxOutstanding
    /\ \E t \in BagToSet(tasks) : t.kind = "delete"
    /\ \E t \in BagToSet(tasks) : t.kind = "ban"
    /\ Len(waiters) = 2

(* C4: the event loop gives the updates to check_update in the order they  *)
(* arrived and one at a time: when the check of an update has started, the *)
(* check of every update before it has returned, its state has been saved  *)
(* and its actions have been handed to the dispatcher.                     *)
C4_EventsInOrderOneAtATime ==
    /\ order = [i \in 1..Len(order) |-> i]
    /\ \A i \in 1..Len(order) :
          i < Len(order) => progress[order[i]] = "handed"
    /\ Cardinality({n \in UpdateIds : progress[n] = "check"}) <= 1

\* the check of the second update runs while the delete and the ban of
\* the first are still outstanding
C4_Witness ==
    /\ Len(order) = 2
    /\ progress[order[1]] = "handed"
    /\ progress[order[2]] = "check"
    /\ main.pc = "check"
    /\ \E t \in BagToSet(tasks) : t.kind = "delete" /\ t.target = order[1]
    /\ \E t \in BagToSet(tasks) : t.kind = "ban"

(* C5: delete_message ends, and after at most max_retry + 1 requests: each *)
(* retry after a RetryAfter, Network or MigrateToChatId error takes one    *)
(* unit of the same budget (retry counts all earlier requests), and such   *)
(* an error ends the deletion exactly when retry = max_retry, with Err.    *)
C5_DeleteEndsWithinBudget ==
    /\ [](\A t \in BagToSet(tasks) :
            /\ t.requests <= MaxRetry
            /\ t.pc = "send" => t.requests = t.retry
            /\ t.pc = "sleep" => t.requests = t.retry + 1)
    /\ [](ended.kind = "delete" =>
            /\ ended.requests <= MaxRetry + 1
            /\ ended.error \in RetriedErrors =>
                 /\ ended.result = "Err"
                 /\ ended.retry = MaxRetry
                 /\ ended.requests = MaxRetry + 1)
    /\ <>(tasks = EmptyBag /\ ended.kind = "delete")

\* a deletion used its budget on errors of different kinds, a Network error
\* among them, and ended with Err on a MigrateToChatId
C5_Witness ==
    /\ ended.kind = "delete"
    /\ ended.result = "Err"
    /\ ended.error = "MigrateToChatId"
    /\ ended.netfails = 1
    /\ ended.requests = MaxRetry + 1
    /\ tasks = EmptyBag

(* C6: for MaybeSpam scores a and b, a + b >= SPAM_THREHOLD makes the sum   *)
(* confirmed spam (is_spam), and a + b < SPAM_THREHOLD makes its score      *)
(* a + b exactly.                                                           *)
C6_ThresholdOfSum ==
    (sums.tag = "pair" /\ lhs.tag = "MaybeSpam" /\ rhs.tag = "MaybeSpam") =>
        IF lhs.score + rhs.score >= SPAM_THREHOLD
        THEN is_spam(sums.xy)
        ELSE sums.xy.tag = "MaybeSpam"
             /\ sums.xy.score = lhs.score + rhs.score
             /\ ~is_spam(sums.xy)

\* two scores below the threshold whose sum reaches it exactly
C6_Witness ==
    /\ sums.tag = "pair"
    /\ lhs.tag = "MaybeSpam" /\ rhs.tag = "MaybeSpam"
    /\ lhs.score < SPAM_THREHOLD /\ rhs.score < SPAM_THREHOLD
    /\ lhs.score + rhs.score = SPAM_THREHOLD
    /\ is_spam(sums.xy)

(* C7: SpamState combination is commutative: x + y = y + x for all states  *)
(* x and y, Authentic or MaybeSpam with any score and timestamps.           *)
C7_AddCommutative ==
    sums.tag = "pair" => sums.xy = sums.yx

\* two MaybeSpam that differ in score and in both timestamps were added
C7_Witness ==
    /\ sums.tag = "pair"
    /\ lhs.tag = "MaybeSpam" /\ rhs.tag = "MaybeSpam"
    /\ lhs.score # rhs.score
    /\ lhs.create_ts_secs < rhs.create_ts_secs
    /\ lhs.update_ts_secs < rhs.update_ts_secs
    /\ sums.xy.tag = "MaybeSpam"

(* C8: SpamState combination is associative: (x + y) + z = x + (y + z)     *)
(* for all states x, y and z.                                               *)
C8_AddAssociative ==
    sums.tag = "triple" => sums.xy_z = sums.x_yz

\* three MaybeSpam were added of which the first two already saturate the
\* score while the last two do not
C8_Witness ==
    /\ sums.tag = "triple"
    /\ lhs.tag = "MaybeSpam" /\ rhs.tag = "MaybeSpam" /\ third.tag = "MaybeSpam"
    /\ lhs.score + rhs.score > U8_MAX
    /\ rhs.score + third.score < U8_MAX
    /\ third.score > 0
    /\ sums.xy_z.score = U8_MAX

(* C9: adding two MaybeSpam is defined for every pair of scores in 0..255: *)
(* the score is min(255, a + b) and so a u8 again, create_ts_secs is the    *)
(* smaller of the two create_ts_secs and update_ts_secs the larger of the   *)
(* two update_ts_secs.                                                      *)
C9_SuspectSum ==
    (sums.tag = "pair" /\ lhs.tag = "MaybeSpam" /\ rhs.tag = "MaybeSpam") =>
        LET r == sums.xy IN
        /\ r.tag = "MaybeSpam"
        /\ r.score \in 0..255
        /\ r.score = IF lhs.score + rhs.score < 255
                     THEN lhs.score + rhs.score ELSE 255
        /\ r.create_ts_secs \in {lhs.create_ts_secs, rhs.create_ts_secs}
        /\ r.create_ts_secs <= lhs.create_ts_secs
        /\ r.create_ts_secs <= rhs.create_ts_secs
        /\ r.update_ts_secs \in {lhs.update_ts_secs, rhs.update_ts_secs}
        /\ r.update_ts_secs >= lhs.update_ts_secs
        /\ r.update_ts_secs >= rhs.update_ts_secs

\* the two largest scores were added, the older state on the right
C9_Witness ==
    /\ sums.tag = "pair"
    /\ lhs.tag = "MaybeSpam" /\ rhs.tag = "MaybeSpam"
    /\ lhs.score = 255 /\ rhs.score = 255
    /\ rhs.create_ts_secs < lhs.create_ts_secs
    /\ rhs.update_ts_secs < lhs.update_ts_secs
    /\ sums.xy.score = 255

(* C10: an update_user on a user who is MaybeSpam before and after it      *)
(* never lowers the stored score, and a user who is confirmed spam stays    *)
(* confirmed spam under every further MaybeSpam delta.                      *)
C10_ScoreNeverDecreases ==
    [][(/\ last'.op = "update_user"
        /\ users[last'.user_id].tag = "MaybeSpam"
        /\ users'[last'.user_id].tag = "MaybeSpam") =>
        /\ users'[last'.user_id].score >= users[last'.user_id].score
        /\ is_spam(users[last'.user_id]) => is_spam(users'[last'.user_id])]_vars

\* a later confirmed-spam delta was merged into a user who was confirmed spam
\* already, and the score stands at the u8 limit
C10_Witness ==
    /\ last.op = "update_user"
    /\ is_spam(last.new_state)
    /\ users[last.user_id].tag = "MaybeSpam"
    /\ users[last.user_id].score = U8_MAX
    /\ users[last.user_id].create_ts_secs < last.new_state.create_ts_secs

C14_MissedTicksAllSkipped ==
    /\ sweep.running <= 1
    /\ sweep.started >= 2 => sweep.tick_for >= sweep.returned_at

(* C14, amended: at most one check_spam is in progress and a check starts  *)
(* only when every earlier one has returned; ticks do not queue up: when a *)
(* tick has returned, the next deadline lies after now on the grid of      *)
(* multiples of CHECK_INTERVAL, so of the ticks that fell due during a     *)
(* check only the first is delivered, late, and the others are skipped.    *)
C14_OneSweepNoBacklog ==
    /\ sweep.running <= 1
    /\ sweep.running = 1 <=> sweep.pc = "check_spam"
    /\ sweep.started = sweep.returned + sweep.running
    /\ deadline % CHECK_INTERVAL = 0
    /\ sweep.started >= 1 =>
          /\ deadline > sweep.tick_at
          /\ deadline - sweep.tick_at <= CHECK_INTERVAL
          /\ sweep.tick_for <= sweep.tick_at
          /\ sweep.tick_for < deadline

\* a check ran over two deadlines; the tick after it came at once, for the
\* first of them, and the next deadline is the one after now
C14_Witness ==
    /\ sweep.started = 2
    /\ sweep.pc = "check_spam"
    /\ sweep.tick_for = CHECK_INTERVAL
    /\ sweep.tick_at > 2 * CHECK_INTERVAL
    /\ deadline > sweep.tick_for + 2 * CHECK_INTERVAL

(* C15: an edited message in a public chat yields Delete of that message, *)
(* whatever its content and sender and whether the sender is traced, and   *)
(* the db stays as it was: neither the chat's (uid, noa) nor any user's    *)
(* trace changes.                                                          *)
C15_EditedAlwaysDeleted ==
    (/\ decision.n >= 1
     /\ decision.update.kind = "EditedMessage"
     /\ decision.update.chat_id \in PublicChats) =>
        /\ decision.action = "Delete"
        /\ decision.delete = <<decision.update.chat_id, decision.update.id>>
        /\ decision.ban = <<>>
        /\ ~decision.noa_changed
        /\ ~decision.untrust_changed

\* the edited message is one the flood rule would admit, of a traced user
\* who is not the one admitted last
C15_Witness ==
    /\ decision.n >= 2
    /\ decision.update.kind = "EditedMessage"
    /\ decision.update.chat_id \in PublicChats
    /\ is_filler(decision.update.msg)
    /\ untrust[<<decision.update.chat_id, decision.update.msg.from.id>>] = 0
    /\ ~flood_rejects(user_noa[decision.update.chat_id],
                      decision.update.msg.from.id,
                      noa_of(decision.update.msg.content))
    /\ decision.action = "Delete"

C17_NoSenderAccepted ==
    (/\ decision.n >= 1
     /\ decision.update.kind = "Message"
     /\ decision.update.msg.kind = "Common"
     /\ decision.update.msg.from.tag = "None") =>
        decision.action = "Accept"

C19_FillerAdmittedOrDeleted ==
    /\ (/\ decision.n >= 1
        /\ decision.update.kind = "Message"
        /\ decision.update.chat_id \in PublicChats
        /\ is_filler(decision.update.msg)) =>
           /\ decision.action \in {"Accept", "Delete"}
           /\ decision.action = "Accept" <=> decision.admitted
           /\ decision.admitted =>
                 /\ user_noa[decision.update.chat_id] =
                       <<decision.update.msg.from.id,
                         noa_of(decision.update.msg.content)>>
                 /\ untrust[<<decision.update.chat_id,
                              decision.update.msg.from.id>>] = NotTraced
           /\ ~decision.admitted =>
                 /\ ~decision.noa_changed
                 /\ ~decision.untrust_changed
    /\ (decision.n >= 1 /\ decision.ban # <<>>) =>
           decision.ban[2] \notin graduated

(* C20: a deletion whose request fails with MessageToDeleteNotFound,      *)
(* MessageIdInvalid, MessageCantBeDeleted, BotKicked or ChatNotFound ends   *)
(* with that request and with Ok, whatever retry is: the task is gone and  *)
(* the failed request was its last.                                        *)
C20_SettledErrorEndsWithOk ==
    (ended.kind = "delete" /\ ended.error \in SettledErrors) =>
        /\ ended.result = "Ok"
        /\ ended.pc = "break"
        /\ ended.requests = ended.retry + 1
        /\ tasks = EmptyBag

\* the budget was used up, by a Network error among others, when the
\* request failed with BotKicked
C20_Witness ==
    /\ ended.kind = "delete"
    /\ ended.error = "BotKicked"
    /\ ended.retry = MaxRetry
    /\ ended.netfails >= 1
    /\ ended.result = "Ok"

(* C11: save is all-or-nothing: when the process crashes in save, the     *)
(* file holds the complete document of the last completed save (or what    *)
(* open found) or the complete new document, byte for byte.                *)
C11_SaveAllOrNothing ==
    saver.pc = "down" => (file = committed.doc \/ file = buf)

(* C12: when the process has ended after a completed save and the store is *)
(* opened again, open succeeds and every user has the SpamState and every  *)
(* chat the (user, noa) pair of the last save, a user it did not hold is   *)
(* Vacant again (get_user gives the default), also when set_len cut the    *)
(* file because the new document was shorter.                              *)
C12_SaveOpenRoundTrip ==
    (opened.tag # "none" /\ opened.clean) =>
        /\ opened.tag = "Ok"
        /\ opened.users = opened.expect.users
        /\ opened.chats = opened.expect.chats

\* the last save wrote a document shorter than the file was: a user had
\* become Authentic; the store was opened after it and holds a chat too
C12_Witness ==
    /\ opened.tag = "Ok"
    /\ opened.clean
    /\ opened.expect.cut > 0
    /\ \E u \in UserIds : opened.users[u] = Authentic
    /\ \E u \in UserIds : opened.users[u].tag = "Vacant"
    /\ \E c \in ChatIds : opened.chats[c] # VacantChat


(* C21: every dispatched ban makes exactly one ban request: a ban task    *)
(* that has not ended has made none, one that has ended has made one,      *)
(* whether the request succeeded or failed with any error; the dispatch    *)
(* never sleeps or sends again.                                            *)
C21_BanRequestedOnce ==
    /\ \A t \in BagToSet(tasks) :
          t.kind = "ban" => (t.requests = 0 /\ t.pc = "send")
    /\ \A c \in Callers :
          callers[c].pc # "idle" /\ callers[c].call.kind = "ban" =>
              callers[c].call.requests = 0
    /\ ended.kind = "ban" =>
          (ended.requests = 1 /\ ended.pc = "break" /\ ended.retry = 0)

\* a ban ended with a network error while the ban dispatched next is still
\* to make its request
C21_Witness ==
    /\ ended.kind = "ban"
    /\ ended.error = "Network"
    /\ ended.result = "Err"
    /\ \E t \in BagToSet(tasks) : t.kind = "ban"


(* C23: the wait after the k-th network failure of one deletion is the    *)
(* base delay x 2^(k-1), also when rate-limit or chat-migration errors     *)
(* occurred earlier in the same deletion.                                  *)
C23_DelayByNetworkFailures ==
    \A t \in BagToSet(tasks) :
        (t.kind = "delete" /\ t.pc = "sleep" /\ t.error = "Network") =>
            t.delay = RETRY_BASE_DELAY * 2^(t.netfails - 1)

(* C23, amended: the wait after a network failure is the base delay x 2^r, *)
(* r the number of requests of the same deletion that failed before it,    *)
(* whatever their error (rate limit, network, chat migration); so it is    *)
(* the base delay x 2^(k-1) after the k-th network failure when every      *)
(* earlier failure was a network failure.                                  *)
C23_DelayByFailedRequests ==
    \A t \in BagToSet(tasks) :
        (t.kind = "delete" /\ t.pc = "sleep" /\ t.error = "Network") =>
            /\ t.delay = RETRY_BASE_DELAY * 2^(t.requests - 1)
            /\ t.netfails = t.requests =>
                   t.delay = RETRY_BASE_DELAY * 2^(t.netfails - 1)

\* the first network failure of a deletion came after a rate limit and is
\* waited for twice the base delay
C23_Witness ==
    \E t \in BagToSet(tasks) :
        /\ t.kind = "delete" /\ t.pc = "sleep" /\ t.error = "Network"
        /\ t.netfails = 1
        /\ t.requests = 2
        /\ t.delay = 2 * RETRY_BASE_DELAY


(* C28: spwan_delete_message and spawn_ban_user suspend their caller only  *)
(* while all max_outstanding_requests permits are held: a caller waits     *)
(* only when no permit is free and every permit is held by a task or by a  *)
(* caller about to spawn; the permit a task gives back goes to the caller  *)
(* queued first at once; and a caller returns by spawning a task that has  *)
(* made no request yet, whatever the tasks spawned before are doing.       *)
C28_DispatchWaitsOnlyForPermit ==
    [][/\ \A c \in Callers :
              callers'[c].pc = "waiting" =>
                  /\ outstanding_limit' = 0
                  /\ BagCardinality(tasks')
                       + Cardinality({d \in Callers :
                                         callers'[d].pc = "granted"})
                     = MaxOutstanding
       /\ (BagCardinality(tasks') < BagCardinality(tasks)
             /\ waiters # <<>>) =>
              callers'[Head(waiters)].pc = "granted"
       /\ \A c \in Callers :
              (callers[c].pc = "granted" /\ callers'[c].pc = "idle") =>
                  /\ tasks' = tasks (+) SetToBag({callers[c].call})
                  /\ callers[c].call.requests = 0
                  /\ callers[c].call.pc = "send"
       /\ BagCardinality(tasks') > BagCardinality(tasks) =>
              \E t \in BagToSet(tasks') :
                  /\ CopiesIn(t, tasks') = CopiesIn(t, tasks) + 1
                  /\ t.requests = 0 /\ t.pc = "send"
                  /\ \A c \in Callers : callers'[c].pc = "waiting" =>
                                            callers[c].pc = "waiting"]_vars

\* every permit is held, by a task that sleeps before its retry and by a
\* task that has made no request, its caller gone on, while the other
\* caller waits
C28_Witness ==
    /\ BagCardinality(tasks) = MaxOutstanding
    /\ \E t \in BagToSet(tasks) : t.pc = "sleep"
    /\ \E t \in BagToSet(tasks) : t.requests = 0
    /\ Len(waiters) = 1
    /\ \E c \in Callers : callers[c].pc = "idle"


C30_RejectionChangesNothing ==
    [][(last' # last /\ last'.op = "update_chat") =>
          /\ last'.ret # "Ok" => chats' = chats
          /\ \A c \in ChatIds \ {last'.chat_id} : chats'[c] = chats[c]
          /\ last'.ret = "Ok" =>
                 chats'[last'.chat_id] = <<last'.user_id, last'.noa>>
          /\ users' = users]_vars

\* a burst was rejected in a chat with history while the other chat holds
\* a pair too
C30_Witness ==
    /\ last.op = "update_chat"
    /\ last.ret = "No too many ah in a single message"
    /\ chats[last.chat_id] # VacantChat
    /\ chats[last.chat_id] # <<last.user_id, last.noa>>
    /\ \A c \in ChatIds : chats[c] # VacantChat


(* C27: check_message_text applies the tiers in a fixed priority: a text   *)
(* the no-risk pattern matches gets score 0, also when the high-risk or    *)
(* the medium-risk pattern matches it too; otherwise a high-risk match     *)
(* gives a score that is spam on its own; otherwise a medium-risk match    *)
(* gives half of SPAM_THREHOLD; otherwise the baseline, a sixth of it      *)
(* (rounded down).                                                         *)
C27_TiersInPriority ==
    verdict.tag # "none" =>
        LET none == \E i \in DOMAIN msg_text : msg_text[i] = "ah"
            high == \E i \in DOMAIN msg_text :
                       msg_text[i] \in {"open_account", "recruit"}
            medium == \E i \in DOMAIN msg_text : msg_text[i] \in {"recruit", "5k"}
        IN  /\ verdict.tag = "MaybeSpam"
            /\ none => verdict.score = 0
            /\ (~none /\ high) =>
                   (is_spam(verdict) /\ verdict.score >= SPAM_THREHOLD)
            /\ (~none /\ ~high /\ medium) =>
                   2 * verdict.score = SPAM_THREHOLD
            /\ (~none /\ ~high /\ ~medium) =>
                   /\ 6 * verdict.score <= SPAM_THREHOLD
                   /\ SPAM_THREHOLD < 6 * (verdict.score + 1)

\* a text with a high-risk term, a medium-risk term and the filler was
\* given score 0
C27_Witness ==
    /\ verdict.tag = "MaybeSpam"
    /\ verdict.score = 0
    /\ \E i \in DOMAIN msg_text : msg_text[i] = "open_account"
    /\ \E i \in DOMAIN msg_text : msg_text[i] = "5k"
    /\ \E i \in DOMAIN msg_text : msg_text[i] = "ah"


(* C24: cleanup_stale_entries keeps an entry exactly when it was last seen *)
(* at most 28 days ago, or its count is greater than 1 and it was last     *)
(* seen at most 90 days ago; every other entry is removed, and a kept      *)
(* entry is not changed.                                                   *)
C24_KeptExactlyWhenFresh ==
    swept.op = "cleanup" =>
        \A n \in FullNames :
            LET e == swept.before[n]
                age == swept.at - e.last_seen_ts_secs
            IN  IF e = Vacant
                THEN swept.after[n] = Vacant
                ELSE IF age <= NEVER_STALE_DAYS * DAY_SECS
                        \/ (e.count > 1
                              /\ age <= RETURNER_STALE_DAYS * DAY_SECS)
                THEN swept.after[n] = e
                ELSE swept.after[n] = Vacant

(* C25: eviction uses the exact elapsed time: cleanup_stale_entries        *)
(* removes an entry of count 1 whose last_seen_ts_secs is more than        *)
(* 28 x 86400 seconds before now, and an entry of count > 1 whose          *)
(* last_seen_ts_secs is more than 90 x 86400 seconds before now.           *)
C25_EvictionByExactSeconds ==
    swept.op = "cleanup" =>
        \A n \in FullNames :
            LET e == swept.before[n] IN
            e # Vacant =>
                /\ (e.count = 1
                      /\ swept.at - e.last_seen_ts_secs
                           > NEVER_STALE_DAYS * DAY_SECS) =>
                       swept.after[n] = Vacant
                /\ (e.count > 1
                      /\ swept.at - e.last_seen_ts_secs
                           > RETURNER_STALE_DAYS * DAY_SECS) =>
                       swept.after[n] = Vacant


(* C26: for a non-empty list of n distinct values and k in [0, 100],       *)
(* percentile(k, xs) is the element of xs with exactly                     *)
(* max(1, round((100 - k) * n / 100)) - 1 elements of xs greater than it,  *)
(* in any input order; so percentile(0, xs) is the least and               *)
(* percentile(100, xs) the greatest; for no elements there is no result.   *)
C26_RankByExactRounding ==
    (pct_ret.tag # "none" /\ pct_k <= 100) =>
        LET n == Len(pct_nums)
            xs == {pct_nums[i] : i \in DOMAIN pct_nums}
            rounded == ((100 - pct_k) * n + 50) \div 100
            rank == IF rounded < 1 THEN 1 ELSE rounded
        IN  IF n = 0
            THEN pct_ret.tag = "None"
            ELSE /\ pct_ret.tag = "Some"
                 /\ pct_ret.v \in xs
                 /\ Cardinality({x \in xs : x > pct_ret.v}) = rank - 1

(* C26, amended: the rank is max(1, r) with r = (1 - k / 100) * n computed *)
(* in single precision and rounded to the nearest whole number, which is   *)
(* round((100 - k) * n / 100) unless that product lies half way between    *)
(* two whole numbers (k = 85, n = 10: r = 1, not 2); in any input order;   *)
(* percentile(0, xs) is the least, percentile(100, xs) the greatest        *)
(* element, and for no elements there is no result.                        *)
C26_RankBySinglePrecision ==
    (pct_ret.tag # "none" /\ pct_k <= 100) =>
        LET n == Len(pct_nums)
            xs == {pct_nums[i] : i \in DOMAIN pct_nums}
            rounded == ((100 - pct_k) * n + 50) \div 100
            rank == top_n(pct_k, n)
        IN  IF n = 0
            THEN pct_ret.tag = "None"
            ELSE /\ pct_ret.tag = "Some"
                 /\ pct_ret.v \in xs
                 /\ Cardinality({x \in xs : x > pct_ret.v}) = rank - 1
                 /\ ((100 - pct_k) * n) % 100 # 50 =>
                        rank = IF rounded < 1 THEN 1 ELSE rounded
                 /\ pct_k = 0 => \A x \in xs : pct_ret.v <= x
                 /\ pct_k = 100 => \A x \in xs : pct_ret.v >= x

\* percentile(85, xs) for the ten values 0..9 in a mixed order gave 9
C26_Witness ==
    /\ pct_k = 85
    /\ pct_nums = <<3, 9, 0, 5, 8, 1, 7, 2, 6, 4>>
    /\ pct_ret = [tag |-> "Some", v |-> 9]



\* a ban task ends in this step with a request that failed
BanFailsNow ==
    /\ BagCardinality(tasks') < BagCardinality(tasks)
    /\ ended'.kind = "ban"
    /\ ended'.result = "Err"

(* C22: a failed ban is re-attempted on the next detection cycle: when the *)
(* ban request of a user the sweep selected fails and the user is still a  *)
(* member, the user is stored as confirmed spam; the scan of every active  *)
(* sweep selects every user stored as confirmed spam; and for a selected   *)
(* user found present a ban is dispatched.                                 *)
C22_FailedBanRetriedNextSweep ==
    [][/\ (BanFailsNow /\ ended'.target \in present') =>
              is_spam(users'[ended'.target])
       /\ (check.pc = "scan" /\ check'.pc = "loop") =>
              \A uid \in DOMAIN users :
                  is_spam(users[uid]) =>
                      \E i \in DOMAIN check'.suspect_uids :
                          check'.suspect_uids[i] = uid
       /\ (check.pc = "member" /\ check'.pc = "names"
             /\ check.uid \in present) =>
              \/ \E t \in BagToSet(tasks') :
                    t.kind = "ban" /\ t.target = check.uid /\ t.pc = "send"
              \/ /\ callers'["sweep"].pc = "waiting"
                 /\ callers'["sweep"].call.target = check.uid]_vars


(* C31: in the messages sent to one chat no two consecutively admitted     *)
(* messages come from the same user, and every admitted count after the    *)
(* first is at most 3 or at most the previous admitted count plus one,     *)
(* however many rejected messages lie between: the pair a chat holds       *)
(* changes only when a message is admitted to that chat, the pair is then  *)
(* that message's, and the message differs in user from the pair held      *)
(* before and is bounded by its count.                                     *)
C31_AdmittedAlternateAndGrowByOne ==
    [][\A c \in ChatIds :
          \/ chats'[c] = chats[c]
          \/ /\ last'.op = "update_chat" /\ last'.ret = "Ok"
             /\ last'.chat_id = c
             /\ chats'[c] = <<last'.user_id, last'.noa>>
             /\ chats[c] # VacantChat =>
                    /\ last'.user_id # chats[c][1]
                    /\ last'.noa <= 3 \/ last'.noa <= chats[c][2] + 1]_vars

\* the user of the pair a chat holds, admitted with a count above 3, sent
\* once more and was rejected
C31_Witness ==
    /\ last.op = "update_chat"
    /\ last.ret = "No single-user flooding"
    /\ chats[last.chat_id][1] = last.user_id
    /\ chats[last.chat_id][2] > 3
    /\ last.noa <= 3



\* the sweep dispatches a ban of uid in this step: spawn_ban_user spawns
\* the task or starts to wait for a permit
SweepDispatchesBan(uid) ==
    /\ check.pc = "member" /\ check'.pc = "names"
    /\ \/ \E c \in ChatIds : tasks' = tasks (+) SetToBag({ban_task(c, uid)})
       \/ /\ callers["sweep"].pc = "idle"
          /\ callers'["sweep"].pc = "waiting"
          /\ callers'["sweep"].call.kind = "ban"
          /\ callers'["sweep"].call.target = uid

(* C32: a user whose stored state is Authentic when the sweep dispatches   *)
(* its bans is never banned by the sweep, also when the event loop         *)
(* graduated the user between the sweep's scan and its per-user ban step.  *)
C32_AuthenticNeverBanned ==
    [][\A uid \in SweepIds :
          SweepDispatchesBan(uid) => ~is_authentic(users[uid])]_vars



(* C33: a sweep selects a user as suspect exactly when the user's state is *)
(* MaybeSpam and either the score is at or above SPAM_THREHOLD, or the     *)
(* user id is greater than the 98th-percentile id of the authentic users   *)
(* (the id the sweep computed from its scan of them: the authentic id with *)
(* top_n - 1 authentic ids above it) and the state was created before now  *)
(* minus NEW_USER_GRACE_TIME; a user who is Authentic at scan time is      *)
(* never selected.                                                         *)
C33_SuspectsExactly ==
    [][/\ (check.pc = "idle" /\ check'.pc = "scan") =>
              /\ check'.safe_uid \in authentic_uids
              /\ Cardinality({a \in authentic_uids : a > check'.safe_uid})
                    = top_n(UID_PERCENTILE,
                            Cardinality(authentic_uids)) - 1
       /\ (check.pc = "scan" /\ check'.pc = "loop") =>
              \A uid \in SweepIds :
                  (\E i \in DOMAIN check'.suspect_uids :
                        check'.suspect_uids[i] = uid)
                  <=> IF users[uid].tag = "MaybeSpam"
                      THEN \/ users[uid].score >= SPAM_THREHOLD
                           \/ /\ uid > check.safe_uid
                              /\ users[uid].create_ts_secs
                                    < now - NEW_USER_GRACE_TIME
                      ELSE FALSE]_vars

\* a scan exactly one grace time after the users came has selected the
\* user at the threshold alone, and not the user below it
C33_Witness ==
    /\ check.pc = "loop"
    /\ check.suspect_uids = <<11>>
    /\ is_spam(users[11])
    /\ users[12].tag = "MaybeSpam" /\ ~is_spam(users[12])
    /\ users[12].create_ts_secs = now - NEW_USER_GRACE_TIME
    /\ 12 > check.safe_uid
    /\ is_authentic(users[10])


(* C34: while fewer than 10 users are Authentic a sweep does nothing: the  *)
(* call of check_spam returns in the step it starts in and that step       *)
(* changes no user's state, removes no user, dispatches no ban (also with  *)
(* users at or above SPAM_THREHOLD in the store), records no name and      *)
(* does not save.                                                          *)
C34_TooFewAuthenticNoSweep ==
    [][(check.pc = "idle" /\ check' # check
           /\ Cardinality({uid \in SweepIds :
                              users[uid] = Authentic}) < 10) =>
          /\ check'.pc = "idle"
          /\ check'.sweeps = check.sweeps + 1
          /\ check'.saves = check.saves
          /\ users' = users
          /\ tasks' = tasks /\ callers' = callers
          /\ spam_names' = spam_names]_vars

\* a sweep was skipped with nine authentic users while a member at the
\* threshold is stored; nothing was dispatched or saved
C34_Witness ==
    /\ check.pc = "idle" /\ check.result = "skipped"
    /\ check.sweeps = 1 /\ check.saves = 0
    /\ Cardinality(authentic_uids) = 9
    /\ is_spam(users[11]) /\ 11 \in present
    /\ tasks = EmptyBag /\ ended.kind = "none"



(* C35: for every suspect the sweep handles: if the membership lookup      *)
(* shows the user present, a ban is dispatched and the user's entry stays  *)
(* in the store as confirmed spam; if it shows the user no longer present, *)
(* the entry is removed and no ban is dispatched; if the lookup fails, no  *)
(* ban is dispatched, nothing is removed and the user stays stored as      *)
(* confirmed spam.                                                         *)
C35_PerSuspectOutcome ==
    [][/\ (check.pc = "member" /\ check'.pc = "names"
             /\ check.uid \in present) =>
              /\ SweepDispatchesBan(check.uid)
              /\ is_spam(users'[check.uid])
       /\ (check.pc = "member" /\ check'.pc = "names"
             /\ check.uid \notin present) =>
              /\ users'[check.uid] = Vacant
              /\ \A uid \in SweepIds \ {check.uid} : users'[uid] = users[uid]
              /\ tasks' = tasks /\ callers' = callers
       /\ (check.pc = "member" /\ check'.pc = "loop") =>
              /\ tasks' = tasks /\ callers' = callers
              /\ users' = users
              /\ is_spam(users'[check.uid])]_vars


\* the permits that are free or in the hands of a caller woken with one
PermitsNotInTasks(limit, cs) ==
    limit + Cardinality({c \in Callers : cs[c].pc = "granted"})

(* C36: every permit taken by a dispatch is given back when its task ends, *)
(* whether the request succeeded, failed or ran out of retries; so, given  *)
(* that each platform request returns, every call of spwan_delete_message  *)
(* or spawn_ban_user eventually acquires a permit and returns, and the     *)
(* count of free permits is max_outstanding_requests again when no task is *)
(* running and no call is under way.                                       *)
C36_PermitsReturned ==
    /\ [][BagCardinality(tasks') < BagCardinality(tasks) =>
             PermitsNotInTasks(outstanding_limit', callers')
                = PermitsNotInTasks(outstanding_limit, callers) + 1]_vars
    /\ []((tasks = EmptyBag /\ \A c \in Callers : callers[c].pc = "idle")
             => outstanding_limit = MaxOutstanding)
    /\ \A c \in Callers :
          (callers[c].pc = "waiting") ~> (callers[c].pc = "idle")

\* a deletion that ran out of retries has ended with an error and its
\* permit went to a caller that was queued, while the other still waits
C36_Witness ==
    /\ ended.kind = "delete" /\ ended.result = "Err"
    /\ ended.retry = MaxRetry
    /\ \E c \in Callers : callers[c].pc = "granted"
    /\ \E c \in Callers : callers[c].pc = "waiting"


\* the event loop dispatches a task of this kind in this step: the task is
\* spawned, or the call starts to wait for a permit
MainDispatches(kind) ==
    \/ /\ callers["main"].pc = "idle" /\ callers'["main"].pc = "waiting"
       /\ callers'["main"].call.kind = kind
    \/ /\ callers["main"].pc = "idle" /\ callers'["main"].pc = "idle"
       /\ BagCardinality(tasks') > BagCardinality(tasks)
       /\ \E t \in BagToSet(tasks') :
             t.kind = kind /\ CopiesIn(t, tasks') > CopiesIn(t, tasks)

(* C37: in the event loop the state is saved after each event's policy     *)
(* decision and before any action of that event is dispatched, with the    *)
(* delete dispatched before the ban; if the save fails the loop ends with  *)
(* that error and neither the delete nor the ban of that event is          *)
(* dispatched.                                                             *)
C37_SaveBeforeDispatch ==
    [][/\ (MainDispatches("delete") \/ MainDispatches("ban")) =>
              /\ progress[main.update] = "saved"
              /\ main.result = "none"
       /\ MainDispatches("delete") =>
              /\ get_delete(main.action)
              /\ main'.pc \in {"ban", "delete_wait"}
       /\ MainDispatches("ban") =>
              /\ get_ban(main.action)
              /\ main.pc = "ban"
       /\ (main.pc # "ban" /\ main'.pc = "ban") =>
              /\ main.pc \in {"delete", "delete_wait"}
              /\ get_delete(main.action) =>
                     \E t \in BagToSet(tasks') :
                         /\ t.kind = "delete" /\ t.target = main.update
                         /\ CopiesIn(t, tasks') > CopiesIn(t, tasks)
       /\ (main.pc = "save" /\ main'.pc # "save") =>
              /\ progress[main.update] = "checked"
              /\ callers["main"].pc = "idle"
              /\ IF progress'[main.update] = "saved"
                 THEN main'.pc = "delete"
                 ELSE main'.pc = "returned" /\ main'.result = "Err"
       /\ main.pc = "returned" =>
              /\ main' = main /\ progress' = progress
              /\ callers'["main"] = callers["main"]
              /\ BagCardinality(tasks') <= BagCardinality(tasks)]_vars

\* the save of the second event failed and the loop ended with the error:
\* the event asked for a delete and a ban, and the only task there is is
\* the delete of the first event
C37_Witness ==
    /\ main.pc = "returned" /\ main.result = "Err"
    /\ main.update \in UpdateIds
    /\ progress[main.update] = "checked"
    /\ get_delete(main.action) /\ get_ban(main.action)
    /\ \E n \in UpdateIds : n # main.update /\ progress[n] = "handed"
    /\ \A t \in BagToSet(tasks) :
          t.kind = "delete" /\ t.target # main.update
    /\ tasks # EmptyBag

====
